---- MODULE Spec2Model ----
(***************************************************************************)
(* A model of the career-bible-2023 documentation site: the theme          *)
(* configuration object, the MDX content corpus and the static build that  *)
(* the documentation-site generator runs over them, together with the      *)
(* React sample components whose behaviour the articles describe.          *)
(***************************************************************************)
EXTENDS Integers, Sequences, FiniteSets, TLC

VARIABLES
  \* ---- the static build of the site ----
  shipped,    \* index of the shipped configuration object the site starts from
  site,       \* the configuration object as the author's file holds it now
  skipped,    \* index of a document left out of the corpus (0: none)
  broken,     \* index of a document whose last fence line the author deleted (0: none)
  edits,      \* number of edits the author has made
  runs,       \* number of build runs started
  phase,      \* "start" | "render" | "done" | "failed"
  cfg,        \* the configuration value the build has read
  cfgReads,   \* how many times the build has read the configuration
  doc,        \* index in Corpus of the document being rendered
  pos,        \* number of marked lines of that document already scanned
  fence,      \* 0 outside a code fence, else the length of the opening fence
  title,      \* <<>> while no title was found, else <<text>>
  esm,        \* import/export statements found outside code fences
  output,     \* the pages built so far in this run
  prev,       \* the configuration and the output of the last run that was done
  loadedAt,   \* the number of edits made when the run read the configuration
  \* ---- the debounced Search component ----
  mounted,    \* whether the component is mounted
  term,       \* useState: the search term
  fetchTerm,  \* the term captured by the memoized fetchResults of the last render
  timers,     \* pending setTimeout timers: [id, due, term]
  nextTimer,  \* the next timer id setTimeout returns
  effectTimer,\* timerId held by the cleanup of the last effect run
  now,        \* the clock, in milliseconds
  changedAt,  \* the time of the last change of term (the mount at first)
  calls,      \* API calls made so far: [term, at, current, since], where current
              \* and since are the term and the time of its last change at the call
  pending,    \* the terms of the requests in flight
  results     \* useState: <<>> or the term whose results are shown

buildVars == <<shipped, site, skipped, broken, edits, runs, phase, cfg, cfgReads,
               doc, pos, fence, title, esm, output, prev, loadedAt>>
searchVars == <<mounted, term, fetchTerm, timers, nextTimer, effectTimer, now,
                changedAt, calls, pending, results>>

VARIABLES
  \* ---- the useApiRequest hook ----
  apiMounted,          \* whether a component that uses the hook is mounted
  requestType,         \* the requestType the hook was called with
  data,                \* useState: data, an object [json, from]
  parameters,          \* useState: parameters, an object [json, from]
  isLoading,           \* useState: isLoading
  error,               \* useState: <<>> for null, else <<message>>
  previousData,        \* useRef: previousData.current
  previousParameters,  \* useRef: previousParameters.current
  apiTimer,            \* <<>> or the pending timer: <<[due, data, parameters]>>, with
                       \* the data and parameters its executeApiRequest captured
  apiNow,              \* the clock, in steps
  apiSince,            \* the time the effect last ran
  inflight,            \* calls of performRequest not settled yet
  nextRequest,         \* the number of the next call of performRequest
  sent,                \* the requests sent to the network so far
  settled,             \* the calls of performRequest that have settled
  changed,             \* whether the caller has set data or parameters since the
                       \* last call of performRequest (since the mount at first)
  unhandled            \* errors that left executeApiRequest uncaught

apiVars == <<apiMounted, requestType, data, parameters, isLoading, error,
             previousData, previousParameters, apiTimer, apiNow, apiSince,
             inflight, nextRequest, sent, settled, changed, unhandled>>

VARIABLES
  \* ---- ImmerFluent: the context provider of createContextProviderCreator ----
  provided,   \* whether the Provider is mounted
  state,      \* useImmerReducer: the state of the Provider
  threw,      \* <<>>, or <<the error>> the reducer threw in the last setState call
  lastHook    \* the last call of the custom context hook: where it was made
              \* and what came of it

immerVars == <<provided, state, threw, lastHook>>

VARIABLES
  \* ---- the Pagination component ----
  pgMounted,    \* whether the component is mounted
  page,         \* useState: page
  pageData,     \* useState: data, <<>> or <<the page whose data is shown>>
  prevPageRef,  \* useRef: prevPageRef.current
  requested,    \* the pages requested so far, in order
  pgInflight    \* the requests not answered yet: [id, page]

paginationVars == <<pgMounted, page, pageData, prevPageRef, requested, pgInflight>>

VARIABLES
  \* ---- the useUser hook (Pass Four), one entry per component that calls it ----
  stage,      \* "unmounted" | "fetch" | "json" | "done": where fetchUser is
  user,       \* useState: user
  userError,  \* useState: error
  failure,    \* <<>>, or <<the reason the fetch was rejected with>>
  escaped     \* the errors that left fetchUser uncaught

userVars == <<stage, user, userError, failure, escaped>>

vars == <<buildVars, searchVars, apiVars, paginationVars, immerVars, userVars>>

\* What the actions of one part of the model leave alone: the other parts.
exceptBuild == <<searchVars, apiVars, paginationVars, immerVars, userVars>>
exceptSearch == <<buildVars, apiVars, paginationVars, immerVars, userVars>>
exceptApi == <<buildVars, searchVars, paginationVars, immerVars, userVars>>
exceptPagination == <<buildVars, searchVars, apiVars, immerVars, userVars>>
exceptImmer == <<buildVars, searchVars, apiVars, paginationVars, userVars>>
exceptUser == <<buildVars, searchVars, apiVars, paginationVars, immerVars>>


(***************************************************************************)
(* Variants of the shipped files with one slip each, used to test that the *)
(* properties below depend on the files.                                   *)
(***************************************************************************)

\* theme.config.tsx with the scheme of the chat link left out.
ThemeConfig_no_scheme ==
  [logo |-> [tag |-> "span", children |-> "Literally everything I know by Doug Silkstone"],
   project |-> [link |->
     <<"h", "t", "t", "p", "s", ":", "/", "/", "g", "i", "t", "h", "u", "b", ".", "c", "o", "m", "/", "s", "h", "u", "d", "i", "n", "g", "/", "n", "e", "x", "t", "r", "a", "-", "d", "o", "c", "s", "-", "t", "e", "m", "p", "l", "a", "t", "e">>],
   chat |-> [link |->
     <<"d", "i", "s", "c", "o", "r", "d", ".", "c", "o", "m">>],
   docsRepositoryBase |->
     <<"h", "t", "t", "p", "s", ":", "/", "/", "g", "i", "t", "h", "u", "b", ".", "c", "o", "m", "/", "s", "h", "u", "d", "i", "n", "g", "/", "n", "e", "x", "t", "r", "a", "-", "d", "o", "c", "s", "-", "t", "e", "m", "p", "l", "a", "t", "e">>,
   footer |-> [text |-> "Everything I know about shipping products."]]

\* 5-using-passes.mdx saved as 1-pass-one.md, beside 1-pass-one.mdx.
Doc_5_using_passes_md_twin ==
  [src |-> "src/pages/react-cheatsheets/using-passes/5-using-passes.mdx",
   path |-> [known |-> TRUE, dir |-> <<"react-cheatsheets", "using-passes">>, base |-> "1-pass-one", ext |-> "md"],
   nlines |-> 18,
   frontmatter |-> <<>>,
   marks |-> <<
     [line |-> 1, kind |-> "hash", level |-> 3, text |-> "Some Thoughts on #CodingPasses"]
   >>]

\* collecting-paginated-data-easily.mdx without its closing fence line.
Doc_collecting_paginated_data_easily_unclosed ==
  [src |-> "src/pages/scraping-guide/collecting-paginated-data-easily.mdx",
   path |-> [known |-> TRUE, dir |-> <<"scraping-guide">>, base |-> "collecting-paginated-data-easily", ext |-> "mdx"],
   nlines |-> 69,
   frontmatter |-> <<>>,
   marks |-> <<
     [line |-> 1, kind |-> "fence", ticks |-> 3, info |-> "tsx"],
     [line |-> 2, kind |-> "esm", stmt |-> "import", from |-> "axios", relative |-> FALSE]
   >>]

\* 2-pass-two.mdx importing the page before it.
Doc_2_pass_two_imports ==
  [src |-> "src/pages/react-cheatsheets/using-passes/2-pass-two.mdx",
   path |-> [known |-> TRUE, dir |-> <<"react-cheatsheets", "using-passes">>, base |-> "2-pass-two", ext |-> "mdx"],
   nlines |-> 35,
   frontmatter |-> <<>>,
   marks |-> <<
     [line |-> 1, kind |-> "esm", stmt |-> "import", from |-> "./1-pass-one.mdx", relative |-> TRUE],
     [line |-> 2, kind |-> "hash", level |-> 1, text |-> "Pass Two: Making it right"],
     [line |-> 4, kind |-> "hash", level |-> 4, text |-> "Objective: It works as expected and is understandable."],
     [line |-> 8, kind |-> "fence", ticks |-> 3, info |-> "tsx"],
     [line |-> 17, kind |-> "esm", stmt |-> "export", from |-> "", relative |-> FALSE],
     [line |-> 35, kind |-> "fence", ticks |-> 3, info |-> ""]
   >>]
(***************************************************************************)
(* The site configuration objects.  A link is kept as its sequence of      *)
(* characters, so that its syntax can be examined.                         *)
(***************************************************************************)

\* src/theme.config.tsx, lines 4-16
ThemeConfig ==
  [logo |-> [tag |-> "span", children |-> "Literally everything I know by Doug Silkstone"],
   project |-> [link |->
     <<"h", "t", "t", "p", "s", ":", "/", "/", "g", "i", "t", "h", "u", "b", ".", "c", "o", "m", "/", "s", "h", "u", "d", "i", "n", "g", "/", "n", "e", "x", "t", "r", "a", "-", "d", "o", "c", "s", "-", "t", "e", "m", "p", "l", "a", "t", "e">>],
   chat |-> [link |->
     <<"h", "t", "t", "p", "s", ":", "/", "/", "d", "i", "s", "c", "o", "r", "d", ".", "c", "o", "m">>],
   docsRepositoryBase |->
     <<"h", "t", "t", "p", "s", ":", "/", "/", "g", "i", "t", "h", "u", "b", ".", "c", "o", "m", "/", "s", "h", "u", "d", "i", "n", "g", "/", "n", "e", "x", "t", "r", "a", "-", "d", "o", "c", "s", "-", "t", "e", "m", "p", "l", "a", "t", "e">>,
   footer |-> [text |-> "Everything I know about shipping products."]]

\* src/unnamed/part_009, lines 4-16
ThemeConfig_part_009 ==
  [logo |-> [tag |-> "span", children |-> "Practical Guides From A Self-Taught Technical Lead"],
   project |-> [link |->
     <<"h", "t", "t", "p", "s", ":", "/", "/", "g", "i", "t", "h", "u", "b", ".", "c", "o", "m", "/", "d", "o", "u", "g", "w", "i", "t", "h", "s", "e", "i", "s", "m", "i", "c", "/", "c", "a", "r", "e", "e", "r", "-", "b", "i", "b", "l", "e", "-", "2", "0", "2", "3">>],
   chat |-> [link |->
     <<"h", "t", "t", "p", "s", ":", "/", "/", "t", "w", "i", "t", "t", "e", "r", ".", "c", "o", "m", "/", "d", "o", "u", "g", "i", "e", "s", "i", "l", "k", "s", "t", "o", "n", "e">>],
   docsRepositoryBase |->
     <<"h", "t", "t", "p", "s", ":", "/", "/", "g", "i", "t", "h", "u", "b", ".", "c", "o", "m", "/", "d", "o", "u", "g", "w", "i", "t", "h", "s", "e", "i", "s", "m", "i", "c", "/", "c", "a", "r", "e", "e", "r", "-", "b", "i", "b", "l", "e", "-", "2", "0", "2", "3">>,
   footer |-> [text |-> "A growing compendium of my career knowledge. Updated Weekly."]]

ShippedConfigs == <<ThemeConfig, ThemeConfig_part_009>>

(***************************************************************************)
(* The content corpus.  A document is kept as its lines that matter to the *)
(* renderer's block structure: the code-fence lines (with the length of    *)
(* the backtick run and the info string), the lines with ATX heading       *)
(* syntax and the lines with import/export syntax, wherever they stand;    *)
(* every other line is plain text or code and changes nothing in the scan. *)
(* A document of src/unnamed has an unknown path.                          *)
(***************************************************************************)
\* src/pages/advice-learned-the-hard-way/breaking-into-nontechnical-roles.mdx
Doc_breaking_into_nontechnical_roles ==
  [src |-> "src/pages/advice-learned-the-hard-way/breaking-into-nontechnical-roles.mdx",
   path |-> [known |-> TRUE, dir |-> <<"advice-learned-the-hard-way">>, base |-> "breaking-into-nontechnical-roles", ext |-> "mdx"],
   nlines |-> 313,
   frontmatter |-> <<>>,
   marks |-> <<
     [line |-> 1, kind |-> "hash", level |-> 1, text |-> "Breaking into Non-Traditional Tech Roles: Avoiding the Coding Interview"],
     [line |-> 3, kind |-> "hash", level |-> 2, text |-> "Introduction"],
     [line |-> 9, kind |-> "hash", level |-> 2, text |-> "1: Why Seek Non-Traditional Roles in Tech?"],
     [line |-> 11, kind |-> "hash", level |-> 2, text |-> "Importance of Non-Traditional Roles in Tech: Why Talented Developers are Pivoting"],
     [line |-> 44, kind |-> "hash", level |-> 2, text |-> "The Coding Interview Conundrum: Issues and Drawbacks"],
     [line |-> 52, kind |-> "hash", level |-> 3, text |-> "The Pitfalls of Traditional Coding Interviews"],
     [line |-> 61, kind |-> "hash", level |-> 3, text |-> "Tips for Bypassing Traditional Coding Interviews"],
     [line |-> 70, kind |-> "hash", level |-> 3, text |-> "Recommended Resources"],
     [line |-> 77, kind |-> "hash", level |-> 3, text |-> "Actionable Insight"],
     [line |-> 81, kind |-> "hash", level |-> 3, text |-> "Building Skills for Non-Traditional Roles"],
     [line |-> 97, kind |-> "hash", level |-> 3, text |-> "Leveraging Coding Experience"],
     [line |-> 108, kind |-> "hash", level |-> 3, text |-> "Recommended Resources"],
     [line |-> 115, kind |-> "hash", level |-> 3, text |-> "Actionable Insight"],
     [line |-> 119, kind |-> "hash", level |-> 3, text |-> "Positioning Yourself for Non-Traditional Roles"],
     [line |-> 130, kind |-> "hash", level |-> 3, text |-> "Creating a Standout Resume and LinkedIn Profile"],
     [line |-> 141, kind |-> "hash", level |-> 3, text |-> "Recommended Resources"],
     [line |-> 146, kind |-> "hash", level |-> 3, text |-> "Actionable Insight"],
     [line |-> 150, kind |-> "hash", level |-> 2, text |-> "Positioning Yourself for Non-Traditional Roles"],
     [line |-> 155, kind |-> "hash", level |-> 3, text |-> "Making Your Experience Compelling"],
     [line |-> 166, kind |-> "hash", level |-> 3, text |-> "Creating a Standout Resume and LinkedIn Profile"],
     [line |-> 177, kind |-> "hash", level |-> 3, text |-> "Recommended Resources"],
     [line |-> 182, kind |-> "hash", level |-> 3, text |-> "Actionable Insight"],
     [line |-> 186, kind |-> "hash", level |-> 2, text |-> "Acing the Non-Traditional Interview"],
     [line |-> 191, kind |-> "hash", level |-> 3, text |-> "Preparation: Your First Step to Success"],
     [line |-> 202, kind |-> "hash", level |-> 3, text |-> "Strategies for Successful Interviews"],
     [line |-> 213, kind |-> "hash", level |-> 3, text |-> "Recommended Resources"],
     [line |-> 218, kind |-> "hash", level |-> 3, text |-> "Actionable Insight"],
     [line |-> 222, kind |-> "hash", level |-> 2, text |-> "Networking and Building Relationships"],
     [line |-> 227, kind |-> "hash", level |-> 3, text |-> "Networking in Tech: Your Golden Key"],
     [line |-> 238, kind |-> "hash", level |-> 3, text |-> "Building Relationships for the Future"],
     [line |-> 249, kind |-> "hash", level |-> 3, text |-> "Recommended Resources"],
     [line |-> 254, kind |-> "hash", level |-> 3, text |-> "Actionable Insight"],
     [line |-> 258, kind |-> "hash", level |-> 2, text |-> "Acing the Non-Traditional Interview"],
     [line |-> 263, kind |-> "hash", level |-> 3, text |-> "Preparing for Non-Traditional Interviews"],
     [line |-> 274, kind |-> "hash", level |-> 3, text |-> "Tips and Strategies for Successful Interviews"],
     [line |-> 285, kind |-> "hash", level |-> 3, text |-> "Recommended Resources"],
     [line |-> 290, kind |-> "hash", level |-> 3, text |-> "Actionable Insight"],
     [line |-> 294, kind |-> "hash", level |-> 2, text |-> "Conclusion"]
   >>]

\* src/pages/react-cheatsheets/next-js/dealing-with-vercel-vendor-lockin.mdx
Doc_dealing_with_vercel_vendor_lockin ==
  [src |-> "src/pages/react-cheatsheets/next-js/dealing-with-vercel-vendor-lockin.mdx",
   path |-> [known |-> TRUE, dir |-> <<"react-cheatsheets", "next-js">>, base |-> "dealing-with-vercel-vendor-lockin", ext |-> "mdx"],
   nlines |-> 548,
   frontmatter |-> <<>>,
   marks |-> <<
     [line |-> 1, kind |-> "hash", level |-> 1, text |-> "Dealing with Vercel Lock-in: An Advanced Guide"],
     [line |-> 3, kind |-> "hash", level |-> 2, text |-> "1. Introduction to Vendor Lock-in: Not All Bonds are Eternal"],
     [line |-> 11, kind |-> "fence", ticks |-> 3, info |-> "javascript"],
     [line |-> 13, kind |-> "esm", stmt |-> "export", from |-> "", relative |-> FALSE],
     [line |-> 16, kind |-> "fence", ticks |-> 3, info |-> ""],
     [line |-> 20, kind |-> "hash", level |-> 4, text |-> "Do's:"],
     [line |-> 25, kind |-> "hash", level |-> 4, text |-> "Don'ts:"],
     [line |-> 34, kind |-> "hash", level |-> 2, text |-> "2. The Allure of Vercel: When Convenience Steers the Wheel"],
     [line |-> 40, kind |-> "hash", level |-> 3, text |-> "2.1 Next.js Integration"],
     [line |-> 46, kind |-> "fence", ticks |-> 3, info |-> "tsx"],
     [line |-> 48, kind |-> "esm", stmt |-> "import", from |-> "next/image", relative |-> FALSE],
     [line |-> 50, kind |-> "esm", stmt |-> "export", from |-> "", relative |-> FALSE],
     [line |-> 53, kind |-> "fence", ticks |-> 3, info |-> ""],
     [line |-> 55, kind |-> "hash", level |-> 4, text |-> "Do's:"],
     [line |-> 60, kind |-> "hash", level |-> 4, text |-> "Don'ts:"],
     [line |-> 65, kind |-> "hash", level |-> 3, text |-> "2.2 Vercel's Serverless Functions"],
     [line |-> 69, kind |-> "fence", ticks |-> 3, info |-> "tsx"],
     [line |-> 71, kind |-> "esm", stmt |-> "import", from |-> "next", relative |-> FALSE],
     [line |-> 73, kind |-> "esm", stmt |-> "export", from |-> "", relative |-> FALSE],
     [line |-> 76, kind |-> "fence", ticks |-> 3, info |-> ""],
     [line |-> 78, kind |-> "hash", level |-> 4, text |-> "Do's:"],
     [line |-> 83, kind |-> "hash", level |-> 4, text |-> "Don'ts:"],
     [line |-> 90, kind |-> "hash", level |-> 2, text |-> "3. Steering Away: Exploring Alternative Paths"],
     [line |-> 94, kind |-> "hash", level |-> 3, text |-> "3.1 Replacing next/image"],
     [line |-> 98, kind |-> "fence", ticks |-> 3, info |-> "tsx"],
     [line |-> 100, kind |-> "esm", stmt |-> "import", from |-> "react-optimized-image", relative |-> FALSE],
     [line |-> 102, kind |-> "esm", stmt |-> "import", from |-> "../public/me.jpg", relative |-> TRUE],
     [line |-> 104, kind |-> "esm", stmt |-> "export", from |-> "", relative |-> FALSE],
     [line |-> 105, kind |-> "fence", ticks |-> 3, info |-> ""],
     [line |-> 107, kind |-> "hash", level |-> 4, text |-> "Case Study"],
     [line |-> 111, kind |-> "hash", level |-> 4, text |-> "Do's:"],
     [line |-> 116, kind |-> "hash", level |-> 4, text |-> "Don'ts:"],
     [line |-> 120, kind |-> "hash", level |-> 3, text |-> "3.2 Serverless Functions"],
     [line |-> 124, kind |-> "fence", ticks |-> 3, info |-> "tsx"],
     [line |-> 126, kind |-> "esm", stmt |-> "import", from |-> "aws-lambda", relative |-> FALSE],
     [line |-> 128, kind |-> "esm", stmt |-> "export", from |-> "", relative |-> FALSE],
     [line |-> 136, kind |-> "fence", ticks |-> 3, info |-> ""],
     [line |-> 140, kind |-> "hash", level |-> 4, text |-> "Do's:"],
     [line |-> 145, kind |-> "hash", level |-> 4, text |-> "Don'ts:"],
     [line |-> 151, kind |-> "hash", level |-> 2, text |-> "4. Exploring the Potential Risks of Vercel Lock-In"],
     [line |-> 155, kind |-> "hash", level |-> 3, text |-> "4.1 Proprietary Features"],
     [line |-> 159, kind |-> "fence", ticks |-> 3, info |-> "tsx"],
     [line |-> 161, kind |-> "esm", stmt |-> "export", from |-> "", relative |-> FALSE],
     [line |-> 164, kind |-> "fence", ticks |-> 3, info |-> ""],
     [line |-> 171, kind |-> "hash", level |-> 3, text |-> "4.2 Migration Costs"],
     [line |-> 182, kind |-> "hash", level |-> 2, text |-> "5. Alternatives to Vercel"],
     [line |-> 186, kind |-> "hash", level |-> 3, text |-> "5.1 Self-Hosting Next.js"],
     [line |-> 190, kind |-> "hash", level |-> 2, text |-> "1. Setting up a Node.js server"],
     [line |-> 194, kind |-> "fence", ticks |-> 3, info |-> "tsx"],
     [line |-> 196, kind |-> "esm", stmt |-> "import", from |-> "http", relative |-> FALSE],
     [line |-> 197, kind |-> "esm", stmt |-> "import", from |-> "next", relative |-> FALSE],
     [line |-> 211, kind |-> "fence", ticks |-> 3, info |-> ""],
     [line |-> 222, kind |-> "hash", level |-> 2, text |-> "2. Routing"],
     [line |-> 226, kind |-> "fence", ticks |-> 3, info |-> "tsx"],
     [line |-> 237, kind |-> "fence", ticks |-> 3, info |-> ""],
     [line |-> 247, kind |-> "hash", level |-> 2, text |-> "3. Serving static files"],
     [line |-> 251, kind |-> "fence", ticks |-> 3, info |-> "tsx"],
     [line |-> 253, kind |-> "esm", stmt |-> "import", from |-> "express", relative |-> FALSE],
     [line |-> 254, kind |-> "esm", stmt |-> "import", from |-> "next", relative |-> FALSE],
     [line |-> 273, kind |-> "fence", ticks |-> 3, info |-> ""],
     [line |-> 288, kind |-> "hash", level |-> 3, text |-> "5.2 Other Hosting Platforms"],
     [line |-> 292, kind |-> "fence", ticks |-> 3, info |-> "tsx"],
     [line |-> 300, kind |-> "fence", ticks |-> 3, info |-> ""],
     [line |-> 309, kind |-> "hash", level |-> 2, text |-> "Strategies for Reducing Vendor Lock-In"],
     [line |-> 311, kind |-> "hash", level |-> 3, text |-> "1. Use Microservices Architecture"],
     [line |-> 315, kind |-> "fence", ticks |-> 3, info |-> "tsx"],
     [line |-> 319, kind |-> "esm", stmt |-> "export", from |-> "", relative |-> FALSE],
     [line |-> 334, kind |-> "fence", ticks |-> 3, info |-> ""],
     [line |-> 344, kind |-> "hash", level |-> 3, text |-> "2. Adopt Vendor-Neutral Solutions"],
     [line |-> 348, kind |-> "fence", ticks |-> 3, info |-> "tsx"],
     [line |-> 363, kind |-> "fence", ticks |-> 3, info |-> ""],
     [line |-> 376, kind |-> "hash", level |-> 1, text |-> "Conclusion: Balancing the Trade-offs"],
     [line |-> 380, kind |-> "hash", level |-> 2, text |-> "Embracing the Comforts of Vercel"],
     [line |-> 384, kind |-> "hash", level |-> 2, text |-> "Eyes Wide Open"],
     [line |-> 388, kind |-> "hash", level |-> 2, text |-> "Making Informed Decisions"],
     [line |-> 392, kind |-> "hash", level |-> 2, text |-> "Navigating the Trade-offs"],
     [line |-> 400, kind |-> "hash", level |-> 1, text |-> "Understanding Dynamic Imports in Next.js: The React.lazy Alternative"],
     [line |-> 404, kind |-> "fence", ticks |-> 3, info |-> "jsx"],
     [line |-> 406, kind |-> "esm", stmt |-> "import", from |-> "next/dynamic", relative |-> FALSE],
     [line |-> 418, kind |-> "esm", stmt |-> "export", from |-> "", relative |-> FALSE],
     [line |-> 419, kind |-> "fence", ticks |-> 3, info |-> ""],
     [line |-> 423, kind |-> "hash", level |-> 2, text |-> "Server-Side Rendering and Next.js Dynamic Imports"],
     [line |-> 427, kind |-> "fence", ticks |-> 3, info |-> "jsx"],
     [line |-> 429, kind |-> "esm", stmt |-> "import", from |-> "next/dynamic", relative |-> FALSE],
     [line |-> 443, kind |-> "esm", stmt |-> "export", from |-> "", relative |-> FALSE],
     [line |-> 444, kind |-> "fence", ticks |-> 3, info |-> ""],
     [line |-> 448, kind |-> "hash", level |-> 2, text |-> "Loading Modules with Dependencies"],
     [line |-> 452, kind |-> "fence", ticks |-> 3, info |-> "jsx"],
     [line |-> 454, kind |-> "esm", stmt |-> "import", from |-> "next/dynamic", relative |-> FALSE],
     [line |-> 472, kind |-> "esm", stmt |-> "export", from |-> "", relative |-> FALSE],
     [line |-> 473, kind |-> "fence", ticks |-> 3, info |-> ""],
     [line |-> 476, kind |-> "hash", level |-> 4, text |-> "Pass Four: Bulletproof It"],
     [line |-> 478, kind |-> "hash", level |-> 5, text |-> "Objective: It's tough, handles failure with grace."],
     [line |-> 484, kind |-> "fence", ticks |-> 3, info |-> "typescript"],
     [line |-> 486, kind |-> "esm", stmt |-> "import", from |-> "react", relative |-> FALSE],
     [line |-> 487, kind |-> "esm", stmt |-> "import", from |-> "../services/fetchUser", relative |-> TRUE],
     [line |-> 516, kind |-> "esm", stmt |-> "export", from |-> "", relative |-> FALSE],
     [line |-> 517, kind |-> "fence", ticks |-> 3, info |-> ""],
     [line |-> 519, kind |-> "fence", ticks |-> 3, info |-> "typescript"],
     [line |-> 521, kind |-> "esm", stmt |-> "import", from |-> "react", relative |-> FALSE],
     [line |-> 522, kind |-> "esm", stmt |-> "import", from |-> "../hooks/useUser", relative |-> TRUE],
     [line |-> 543, kind |-> "esm", stmt |-> "export", from |-> "", relative |-> FALSE],
     [line |-> 544, kind |-> "fence", ticks |-> 3, info |-> ""]
   >>]

\* src/pages/react-cheatsheets/patterns-worth-knowing/custom-hooks-and-react-query.mdx
Doc_custom_hooks_and_react_query ==
  [src |-> "src/pages/react-cheatsheets/patterns-worth-knowing/custom-hooks-and-react-query.mdx",
   path |-> [known |-> TRUE, dir |-> <<"react-cheatsheets", "patterns-worth-knowing">>, base |-> "custom-hooks-and-react-query", ext |-> "mdx"],
   nlines |-> 178,
   frontmatter |-> <<>>,
   marks |-> <<
     [line |-> 8, kind |-> "fence", ticks |-> 3, info |-> "bash"],
     [line |-> 10, kind |-> "fence", ticks |-> 3, info |-> ""],
     [line |-> 14, kind |-> "fence", ticks |-> 3, info |-> "bash"],
     [line |-> 16, kind |-> "fence", ticks |-> 3, info |-> ""],
     [line |-> 20, kind |-> "fence", ticks |-> 3, info |-> "bash"],
     [line |-> 22, kind |-> "fence", ticks |-> 3, info |-> ""],
     [line |-> 26, kind |-> "fence", ticks |-> 3, info |-> "bash"],
     [line |-> 28, kind |-> "fence", ticks |-> 3, info |-> ""],
     [line |-> 34, kind |-> "fence", ticks |-> 3, info |-> "jsx"],
     [line |-> 35, kind |-> "esm", stmt |-> "import", from |-> "react", relative |-> FALSE],
     [line |-> 36, kind |-> "esm", stmt |-> "import", from |-> "react-dom", relative |-> FALSE],
     [line |-> 37, kind |-> "esm", stmt |-> "import", from |-> "react-query", relative |-> FALSE],
     [line |-> 38, kind |-> "esm", stmt |-> "import", from |-> "./App", relative |-> TRUE],
     [line |-> 50, kind |-> "fence", ticks |-> 3, info |-> ""],
     [line |-> 52, kind |-> "fence", ticks |-> 3, info |-> "tsx"],
     [line |-> 54, kind |-> "esm", stmt |-> "import", from |-> "react-query", relative |-> FALSE],
     [line |-> 74, kind |-> "esm", stmt |-> "export", from |-> "", relative |-> FALSE],
     [line |-> 77, kind |-> "fence", ticks |-> 3, info |-> ""],
     [line |-> 81, kind |-> "fence", ticks |-> 3, info |-> "jsx"],
     [line |-> 82, kind |-> "esm", stmt |-> "import", from |-> "react", relative |-> FALSE],
     [line |-> 83, kind |-> "esm", stmt |-> "import", from |-> "./hooks/useCustomQuery", relative |-> TRUE],
     [line |-> 85, kind |-> "esm", stmt |-> "export", from |-> "", relative |-> FALSE],
     [line |-> 106, kind |-> "fence", ticks |-> 3, info |-> ""],
     [line |-> 110, kind |-> "hash", level |-> 1, text |-> "How to enhance state management with Immer"],
     [line |-> 122, kind |-> "fence", ticks |-> 3, info |-> "bash"],
     [line |-> 124, kind |-> "fence", ticks |-> 3, info |-> ""],
     [line |-> 126, kind |-> "fence", ticks |-> 3, info |-> "jsx"],
     [line |-> 127, kind |-> "esm", stmt |-> "import", from |-> "immer", relative |-> FALSE],
     [line |-> 128, kind |-> "fence", ticks |-> 3, info |-> ""],
     [line |-> 134, kind |-> "fence", ticks |-> 3, info |-> "jsx"],
     [line |-> 158, kind |-> "fence", ticks |-> 3, info |-> ""],
     [line |-> 166, kind |-> "fence", ticks |-> 3, info |-> "jsx"],
     [line |-> 168, kind |-> "fence", ticks |-> 3, info |-> ""],
     [line |-> 172, kind |-> "fence", ticks |-> 3, info |-> "jsx"],
     [line |-> 174, kind |-> "fence", ticks |-> 3, info |-> ""]
   >>]

\* src/pages/react-cheatsheets/patterns-worth-knowing/dx-first-state-management.mdx
Doc_dx_first_state_management ==
  [src |-> "src/pages/react-cheatsheets/patterns-worth-knowing/dx-first-state-management.mdx",
   path |-> [known |-> TRUE, dir |-> <<"react-cheatsheets", "patterns-worth-knowing">>, base |-> "dx-first-state-management", ext |-> "mdx"],
   nlines |-> 258,
   frontmatter |-> <<>>,
   marks |-> <<
     [line |-> 1, kind |-> "hash", level |-> 1, text |-> "Readme.md"],
     [line |-> 5, kind |-> "hash", level |-> 2, text |-> "ImmerFluent: A Seamless State Management Technique in React"],
     [line |-> 9, kind |-> "hash", level |-> 3, text |-> "Usage:"],
     [line |-> 15, kind |-> "fence", ticks |-> 3, info |-> "javascript"],
     [line |-> 27, kind |-> "fence", ticks |-> 3, info |-> ""],
     [line |-> 33, kind |-> "fence", ticks |-> 3, info |-> "javascript"],
     [line |-> 51, kind |-> "fence", ticks |-> 3, info |-> ""],
     [line |-> 57, kind |-> "fence", ticks |-> 3, info |-> "javascript"],
     [line |-> 65, kind |-> "fence", ticks |-> 3, info |-> ""],
     [line |-> 71, kind |-> "fence", ticks |-> 3, info |-> "javascript"],
     [line |-> 80, kind |-> "fence", ticks |-> 3, info |-> ""],
     [line |-> 82, kind |-> "hash", level |-> 3, text |-> "Installation:"],
     [line |-> 88, kind |-> "fence", ticks |-> 3, info |-> "tsx"],
     [line |-> 89, kind |-> "esm", stmt |-> "import", from |-> "@/lib/createState", relative |-> FALSE],
     [line |-> 112, kind |-> "fence", ticks |-> 3, info |-> ""],
     [line |-> 114, kind |-> "fence", ticks |-> 3, info |-> "tsx"],
     [line |-> 116, kind |-> "esm", stmt |-> "import", from |-> "react", relative |-> FALSE],
     [line |-> 117, kind |-> "esm", stmt |-> "import", from |-> "immer", relative |-> FALSE],
     [line |-> 118, kind |-> "esm", stmt |-> "import", from |-> "use-immer", relative |-> FALSE],
     [line |-> 138, kind |-> "esm", stmt |-> "export", from |-> "", relative |-> FALSE],
     [line |-> 255, kind |-> "esm", stmt |-> "export", from |-> "", relative |-> FALSE],
     [line |-> 256, kind |-> "fence", ticks |-> 3, info |-> ""]
   >>]

\* src/pages/react-cheatsheets/patterns-worth-knowing/structuring-your-components.mdx
Doc_structuring_your_components ==
  [src |-> "src/pages/react-cheatsheets/patterns-worth-knowing/structuring-your-components.mdx",
   path |-> [known |-> TRUE, dir |-> <<"react-cheatsheets", "patterns-worth-knowing">>, base |-> "structuring-your-components", ext |-> "mdx"],
   nlines |-> 179,
   frontmatter |-> <<>>,
   marks |-> <<
     [line |-> 1, kind |-> "hash", level |-> 1, text |-> "Sculpting Elegant Functional Components: An Art for Speedy React Development"],
     [line |-> 14, kind |-> "hash", level |-> 3, text |-> "Pass One: Laying the Foundation"],
     [line |-> 18, kind |-> "fence", ticks |-> 3, info |-> "tsx"],
     [line |-> 20, kind |-> "esm", stmt |-> "import", from |-> "react", relative |-> FALSE],
     [line |-> 34, kind |-> "esm", stmt |-> "export", from |-> "", relative |-> FALSE],
     [line |-> 35, kind |-> "fence", ticks |-> 3, info |-> ""],
     [line |-> 37, kind |-> "hash", level |-> 3, text |-> "Pass Two: Integrating Side Effects"],
     [line |-> 41, kind |-> "fence", ticks |-> 3, info |-> "tsx"],
     [line |-> 42, kind |-> "esm", stmt |-> "import", from |-> "react", relative |-> FALSE],
     [line |-> 59, kind |-> "esm", stmt |-> "export", from |-> "", relative |-> FALSE],
     [line |-> 60, kind |-> "fence", ticks |-> 3, info |-> ""],
     [line |-> 62, kind |-> "hash", level |-> 3, text |-> "Pass Three: Event Handlers and Auxiliary Functions"],
     [line |-> 66, kind |-> "fence", ticks |-> 3, info |-> "tsx"],
     [line |-> 67, kind |-> "esm", stmt |-> "import", from |-> "react", relative |-> FALSE],
     [line |-> 89, kind |-> "esm", stmt |-> "export", from |-> "", relative |-> FALSE],
     [line |-> 90, kind |-> "fence", ticks |-> 3, info |-> ""],
     [line |-> 92, kind |-> "hash", level |-> 3, text |-> "Pass Four: Leveling Up with Custom Hooks and Context"],
     [line |-> 96, kind |-> "fence", ticks |-> 3, info |-> "tsx"],
     [line |-> 98, kind |-> "esm", stmt |-> "import", from |-> "react", relative |-> FALSE],
     [line |-> 112, kind |-> "esm", stmt |-> "export", from |-> "", relative |-> FALSE],
     [line |-> 115, kind |-> "esm", stmt |-> "import", from |-> "react", relative |-> FALSE],
     [line |-> 116, kind |-> "esm", stmt |-> "import", from |-> "../customHooks/useCount", relative |-> TRUE],
     [line |-> 132, kind |-> "esm", stmt |-> "export", from |-> "", relative |-> FALSE],
     [line |-> 133, kind |-> "fence", ticks |-> 3, info |-> ""],
     [line |-> 139, kind |-> "hash", level |-> 1, text |-> "Red Flags in Product Development: A Case for Technical Leadership and Autonomy"],
     [line |-> 143, kind |-> "hash", level |-> 2, text |-> "1. The All-Seeing CEO"],
     [line |-> 149, kind |-> "hash", level |-> 2, text |-> "2. The Well-Meaning, Yet Clueless Product Owners"],
     [line |-> 155, kind |-> "hash", level |-> 2, text |-> "3. The Whirlwind of Shifting Deadlines"],
     [line |-> 161, kind |-> "hash", level |-> 2, text |-> "4. The \"We'll Fix It Later\" Mentality"],
     [line |-> 167, kind |-> "hash", level |-> 2, text |-> "5. The Game of Chinese Whispers"],
     [line |-> 173, kind |-> "hash", level |-> 2, text |-> "6. The \"Mission Impossible\" Expectations"]
   >>]

\* src/pages/react-cheatsheets/patterns-worth-knowing/utilizing-the-decorator-pattern.mdx
Doc_utilizing_the_decorator_pattern ==
  [src |-> "src/pages/react-cheatsheets/patterns-worth-knowing/utilizing-the-decorator-pattern.mdx",
   path |-> [known |-> TRUE, dir |-> <<"react-cheatsheets", "patterns-worth-knowing">>, base |-> "utilizing-the-decorator-pattern", ext |-> "mdx"],
   nlines |-> 62,
   frontmatter |-> <<>>,
   marks |-> <<
     [line |-> 1, kind |-> "hash", level |-> 1, text |-> "Cheatsheet: Utilizing the Decorator Pattern in Functional TypeScript"],
     [line |-> 11, kind |-> "fence", ticks |-> 3, info |-> "tsx"],
     [line |-> 12, kind |-> "esm", stmt |-> "import", from |-> "react", relative |-> FALSE],
     [line |-> 26, kind |-> "fence", ticks |-> 3, info |-> ""],
     [line |-> 32, kind |-> "hash", level |-> 1, text |-> "Additional Use Cases for the Decorator Pattern"],
     [line |-> 46, kind |-> "hash", level |-> 2, text |-> "Potential Pitfalls to Keep in Mind"]
   >>]

\* src/pages/react-cheatsheets/react-performance-debugging/lazy-loading-components-with-react-lazy.mdx
Doc_lazy_loading_components_with_react_lazy ==
  [src |-> "src/pages/react-cheatsheets/react-performance-debugging/lazy-loading-components-with-react-lazy.mdx",
   path |-> [known |-> TRUE, dir |-> <<"react-cheatsheets", "react-performance-debugging">>, base |-> "lazy-loading-components-with-react-lazy", ext |-> "mdx"],
   nlines |-> 72,
   frontmatter |-> <<>>,
   marks |-> <<
     [line |-> 1, kind |-> "hash", level |-> 1, text |-> "Cheatsheet: Lazy Loading Components with React.lazy"],
     [line |-> 5, kind |-> "hash", level |-> 2, text |-> "An Overview of React.lazy"],
     [line |-> 10, kind |-> "fence", ticks |-> 3, info |-> "typescript"],
     [line |-> 11, kind |-> "esm", stmt |-> "import", from |-> "react", relative |-> FALSE],
     [line |-> 15, kind |-> "esm", stmt |-> "export", from |-> "", relative |-> FALSE],
     [line |-> 16, kind |-> "fence", ticks |-> 3, info |-> ""],
     [line |-> 19, kind |-> "fence", ticks |-> 3, info |-> "typescript"],
     [line |-> 20, kind |-> "esm", stmt |-> "import", from |-> "react", relative |-> FALSE],
     [line |-> 34, kind |-> "esm", stmt |-> "export", from |-> "", relative |-> FALSE],
     [line |-> 35, kind |-> "fence", ticks |-> 3, info |-> ""],
     [line |-> 37, kind |-> "hash", level |-> 2, text |-> "Code Splitting with React.lazy"],
     [line |-> 43, kind |-> "fence", ticks |-> 3, info |-> "typescript"],
     [line |-> 44, kind |-> "esm", stmt |-> "import", from |-> "react", relative |-> FALSE],
     [line |-> 60, kind |-> "esm", stmt |-> "export", from |-> "", relative |-> FALSE],
     [line |-> 61, kind |-> "fence", ticks |-> 3, info |-> ""],
     [line |-> 64, kind |-> "hash", level |-> 2, text |-> "Things to Note:"]
   >>]

\* src/pages/react-cheatsheets/react-performance-debugging/offloading-to-web-workers.mdx
Doc_offloading_to_web_workers ==
  [src |-> "src/pages/react-cheatsheets/react-performance-debugging/offloading-to-web-workers.mdx",
   path |-> [known |-> TRUE, dir |-> <<"react-cheatsheets", "react-performance-debugging">>, base |-> "offloading-to-web-workers", ext |-> "mdx"],
   nlines |-> 73,
   frontmatter |-> <<>>,
   marks |-> <<
     [line |-> 1, kind |-> "hash", level |-> 1, text |-> "Cheatsheet: Offloading to Web Workers in TypeScript and React"],
     [line |-> 5, kind |-> "hash", level |-> 2, text |-> "The Issue at Hand - Congested Main Thread"],
     [line |-> 12, kind |-> "fence", ticks |-> 3, info |-> "typescript"],
     [line |-> 13, kind |-> "esm", stmt |-> "import", from |-> "react", relative |-> FALSE],
     [line |-> 25, kind |-> "esm", stmt |-> "export", from |-> "", relative |-> FALSE],
     [line |-> 26, kind |-> "fence", ticks |-> 3, info |-> ""],
     [line |-> 28, kind |-> "hash", level |-> 2, text |-> "The Calvary - Web Workers"],
     [line |-> 35, kind |-> "fence", ticks |-> 3, info |-> "typescript"],
     [line |-> 42, kind |-> "fence", ticks |-> 3, info |-> ""],
     [line |-> 44, kind |-> "hash", level |-> 2, text |-> "Integrating Web Workers with React"],
     [line |-> 49, kind |-> "fence", ticks |-> 3, info |-> "typescript"],
     [line |-> 50, kind |-> "esm", stmt |-> "import", from |-> "react", relative |-> FALSE],
     [line |-> 51, kind |-> "esm", stmt |-> "import", from |-> "./bestDealWorker", relative |-> TRUE],
     [line |-> 66, kind |-> "esm", stmt |-> "export", from |-> "", relative |-> FALSE],
     [line |-> 67, kind |-> "fence", ticks |-> 3, info |-> ""],
     [line |-> 69, kind |-> "hash", level |-> 2, text |-> "The Lowdown"]
   >>]

\* src/pages/react-cheatsheets/react-performance-debugging/optimizing-api-calls-with-useeffect-and-usecallback.mdx
Doc_optimizing_api_calls_with_useeffect_and_usecallback ==
  [src |-> "src/pages/react-cheatsheets/react-performance-debugging/optimizing-api-calls-with-useeffect-and-usecallback.mdx",
   path |-> [known |-> TRUE, dir |-> <<"react-cheatsheets", "react-performance-debugging">>, base |-> "optimizing-api-calls-with-useeffect-and-usecallback", ext |-> "mdx"],
   nlines |-> 763,
   frontmatter |-> <<>>,
   marks |-> <<
     [line |-> 1, kind |-> "hash", level |-> 1, text |-> "Cheatsheet: Optimizing API Calls Relying On User Input"],
     [line |-> 6, kind |-> "hash", level |-> 2, text |-> "Case Study 1: Debouncing API Calls in a Search Component"],
     [line |-> 14, kind |-> "fence", ticks |-> 3, info |-> "tsx"],
     [line |-> 15, kind |-> "esm", stmt |-> "import", from |-> "react", relative |-> FALSE],
     [line |-> 16, kind |-> "esm", stmt |-> "import", from |-> "axios", relative |-> FALSE],
     [line |-> 42, kind |-> "esm", stmt |-> "export", from |-> "", relative |-> FALSE],
     [line |-> 43, kind |-> "fence", ticks |-> 3, info |-> ""],
     [line |-> 49, kind |-> "fence", ticks |-> 3, info |-> "tsx"],
     [line |-> 50, kind |-> "esm", stmt |-> "import", from |-> "react", relative |-> FALSE],
     [line |-> 51, kind |-> "esm", stmt |-> "import", from |-> "axios", relative |-> FALSE],
     [line |-> 79, kind |-> "esm", stmt |-> "export", from |-> "", relative |-> FALSE],
     [line |-> 80, kind |-> "fence", ticks |-> 3, info |-> ""],
     [line |-> 86, kind |-> "fence", ticks |-> 3, info |-> "tsx"],
     [line |-> 87, kind |-> "esm", stmt |-> "import", from |-> "react", relative |-> FALSE],
     [line |-> 88, kind |-> "esm", stmt |-> "import", from |-> "axios", relative |-> FALSE],
     [line |-> 120, kind |-> "esm", stmt |-> "export", from |-> "", relative |-> FALSE],
     [line |-> 121, kind |-> "fence", ticks |-> 3, info |-> ""],
     [line |-> 125, kind |-> "hash", level |-> 2, text |-> "Case Study 2: Reducing Unnecessary API Calls in a Pagination Component"],
     [line |-> 133, kind |-> "fence", ticks |-> 3, info |-> "jsx"],
     [line |-> 134, kind |-> "esm", stmt |-> "import", from |-> "react", relative |-> FALSE],
     [line |-> 135, kind |-> "esm", stmt |-> "import", from |-> "axios", relative |-> FALSE],
     [line |-> 152, kind |-> "fence", ticks |-> 3, info |-> ""],
     [line |-> 158, kind |-> "fence", ticks |-> 3, info |-> "jsx"],
     [line |-> 159, kind |-> "esm", stmt |-> "import", from |-> "react", relative |-> FALSE],
     [line |-> 160, kind |-> "esm", stmt |-> "import", from |-> "axios", relative |-> FALSE],
     [line |-> 177, kind |-> "fence", ticks |-> 3, info |-> ""],
     [line |-> 183, kind |-> "fence", ticks |-> 3, info |-> "jsx"],
     [line |-> 184, kind |-> "esm", stmt |-> "import", from |-> "react", relative |-> FALSE],
     [line |-> 185, kind |-> "esm", stmt |-> "import", from |-> "axios", relative |-> FALSE],
     [line |-> 206, kind |-> "fence", ticks |-> 3, info |-> ""],
     [line |-> 210, kind |-> "hash", level |-> 2, text |-> "Case Study 3: Intelligent API Request Throttling in a Multi-Filter Component"],
     [line |-> 218, kind |-> "fence", ticks |-> 3, info |-> "jsx"],
     [line |-> 219, kind |-> "esm", stmt |-> "import", from |-> "react", relative |-> FALSE],
     [line |-> 220, kind |-> "esm", stmt |-> "import", from |-> "axios", relative |-> FALSE],
     [line |-> 239, kind |-> "fence", ticks |-> 3, info |-> ""],
     [line |-> 245, kind |-> "fence", ticks |-> 3, info |-> "jsx"],
     [line |-> 246, kind |-> "esm", stmt |-> "import", from |-> "react", relative |-> FALSE],
     [line |-> 247, kind |-> "esm", stmt |-> "import", from |-> "axios", relative |-> FALSE],
     [line |-> 266, kind |-> "fence", ticks |-> 3, info |-> ""],
     [line |-> 272, kind |-> "fence", ticks |-> 3, info |-> "jsx"],
     [line |-> 273, kind |-> "esm", stmt |-> "import", from |-> "react", relative |-> FALSE],
     [line |-> 274, kind |-> "esm", stmt |-> "import", from |-> "axios", relative |-> FALSE],
     [line |-> 297, kind |-> "fence", ticks |-> 3, info |-> ""],
     [line |-> 303, kind |-> "hash", level |-> 2, text |-> "Case Study 4: Conditional API Calls in a Profile Update Component"],
     [line |-> 311, kind |-> "fence", ticks |-> 3, info |-> "jsx"],
     [line |-> 312, kind |-> "esm", stmt |-> "import", from |-> "react", relative |-> FALSE],
     [line |-> 313, kind |-> "esm", stmt |-> "import", from |-> "axios", relative |-> FALSE],
     [line |-> 328, kind |-> "fence", ticks |-> 3, info |-> ""],
     [line |-> 334, kind |-> "fence", ticks |-> 3, info |-> "jsx"],
     [line |-> 335, kind |-> "esm", stmt |-> "import", from |-> "react", relative |-> FALSE],
     [line |-> 336, kind |-> "esm", stmt |-> "import", from |-> "axios", relative |-> FALSE],
     [line |-> 351, kind |-> "fence", ticks |-> 3, info |-> ""],
     [line |-> 357, kind |-> "fence", ticks |-> 3, info |-> "jsx"],
     [line |-> 358, kind |-> "esm", stmt |-> "import", from |-> "react", relative |-> FALSE],
     [line |-> 359, kind |-> "esm", stmt |-> "import", from |-> "axios", relative |-> FALSE],
     [line |-> 378, kind |-> "fence", ticks |-> 3, info |-> ""],
     [line |-> 382, kind |-> "hash", level |-> 2, text |-> "Case Study 5: Instant Profile Update with Real-Time API Calls"],
     [line |-> 390, kind |-> "fence", ticks |-> 3, info |-> "jsx"],
     [line |-> 391, kind |-> "esm", stmt |-> "import", from |-> "react", relative |-> FALSE],
     [line |-> 392, kind |-> "esm", stmt |-> "import", from |-> "axios", relative |-> FALSE],
     [line |-> 407, kind |-> "fence", ticks |-> 3, info |-> ""],
     [line |-> 413, kind |-> "fence", ticks |-> 3, info |-> "jsx"],
     [line |-> 414, kind |-> "esm", stmt |-> "import", from |-> "react", relative |-> FALSE],
     [line |-> 415, kind |-> "esm", stmt |-> "import", from |-> "axios", relative |-> FALSE],
     [line |-> 430, kind |-> "fence", ticks |-> 3, info |-> ""],
     [line |-> 436, kind |-> "fence", ticks |-> 3, info |-> "jsx"],
     [line |-> 437, kind |-> "esm", stmt |-> "import", from |-> "react", relative |-> FALSE],
     [line |-> 438, kind |-> "esm", stmt |-> "import", from |-> "axios", relative |-> FALSE],
     [line |-> 457, kind |-> "fence", ticks |-> 3, info |-> ""],
     [line |-> 461, kind |-> "hash", level |-> 2, text |-> "Case Study 6: Creating a Custom Hook for Optimized API Calls"],
     [line |-> 469, kind |-> "fence", ticks |-> 3, info |-> "jsx"],
     [line |-> 470, kind |-> "esm", stmt |-> "import", from |-> "react", relative |-> FALSE],
     [line |-> 471, kind |-> "esm", stmt |-> "import", from |-> "axios", relative |-> FALSE],
     [line |-> 487, kind |-> "fence", ticks |-> 3, info |-> ""],
     [line |-> 493, kind |-> "fence", ticks |-> 3, info |-> "jsx"],
     [line |-> 494, kind |-> "esm", stmt |-> "import", from |-> "react", relative |-> FALSE],
     [line |-> 495, kind |-> "esm", stmt |-> "import", from |-> "axios", relative |-> FALSE],
     [line |-> 539, kind |-> "fence", ticks |-> 3, info |-> ""],
     [line |-> 545, kind |-> "fence", ticks |-> 3, info |-> "jsx"],
     [line |-> 546, kind |-> "esm", stmt |-> "import", from |-> "react", relative |-> FALSE],
     [line |-> 547, kind |-> "esm", stmt |-> "import", from |-> "axios", relative |-> FALSE],
     [line |-> 594, kind |-> "fence", ticks |-> 3, info |-> ""],
     [line |-> 614, kind |-> "fence", ticks |-> 3, info |-> "tsx"],
     [line |-> 615, kind |-> "esm", stmt |-> "import", from |-> "react", relative |-> FALSE],
     [line |-> 616, kind |-> "esm", stmt |-> "import", from |-> "axios", relative |-> FALSE],
     [line |-> 706, kind |-> "fence", ticks |-> 3, info |-> ""],
     [line |-> 708, kind |-> "hash", level |-> 3, text |-> "Examples"],
     [line |-> 712, kind |-> "hash", level |-> 4, text |-> "GET Request"],
     [line |-> 714, kind |-> "fence", ticks |-> 3, info |-> "tsx"],
     [line |-> 734, kind |-> "fence", ticks |-> 3, info |-> ""],
     [line |-> 736, kind |-> "hash", level |-> 4, text |-> "POST Request"],
     [line |-> 738, kind |-> "fence", ticks |-> 3, info |-> "tsx"],
     [line |-> 758, kind |-> "fence", ticks |-> 3, info |-> ""],
     [line |-> 761, kind |-> "hash", level |-> 2, text |-> "Conclusion"]
   >>]

\* src/pages/react-cheatsheets/react-performance-debugging/optimizing-context-api-with-memoization-and-context-splitting.mdx
Doc_optimizing_context_api_with_memoization_and_context_splitting ==
  [src |-> "src/pages/react-cheatsheets/react-performance-debugging/optimizing-context-api-with-memoization-and-context-splitting.mdx",
   path |-> [known |-> TRUE, dir |-> <<"react-cheatsheets", "react-performance-debugging">>, base |-> "optimizing-context-api-with-memoization-and-context-splitting", ext |-> "mdx"],
   nlines |-> 256,
   frontmatter |-> <<>>,
   marks |-> <<
     [line |-> 1, kind |-> "hash", level |-> 1, text |-> "Advanced Optimization Techniques for React's Context API: A Deep Dive into Memoization and Context Splitting"],
     [line |-> 7, kind |-> "hash", level |-> 2, text |-> "A Real-World Scenario: Online Shopping Cart"],
     [line |-> 13, kind |-> "fence", ticks |-> 3, info |-> "jsx"],
     [line |-> 14, kind |-> "esm", stmt |-> "import", from |-> "react", relative |-> FALSE],
     [line |-> 15, kind |-> "esm", stmt |-> "import", from |-> "./cartReducer", relative |-> TRUE],
     [line |-> 34, kind |-> "fence", ticks |-> 3, info |-> ""],
     [line |-> 36, kind |-> "hash", level |-> 2, text |-> "The Challenge: Unnecessary Re-renders"],
     [line |-> 44, kind |-> "fence", ticks |-> 3, info |-> "jsx"],
     [line |-> 45, kind |-> "esm", stmt |-> "import", from |-> "react", relative |-> FALSE],
     [line |-> 46, kind |-> "esm", stmt |-> "import", from |-> "./CartContext", relative |-> TRUE],
     [line |-> 52, kind |-> "fence", ticks |-> 3, info |-> ""],
     [line |-> 54, kind |-> "hash", level |-> 2, text |-> "The Techniques: Memoization and Context Splitting"],
     [line |-> 56, kind |-> "hash", level |-> 3, text |-> "Memoization"],
     [line |-> 62, kind |-> "fence", ticks |-> 3, info |-> "jsx"],
     [line |-> 63, kind |-> "esm", stmt |-> "import", from |-> "react", relative |-> FALSE],
     [line |-> 64, kind |-> "esm", stmt |-> "import", from |-> "./cartReducer", relative |-> TRUE],
     [line |-> 79, kind |-> "fence", ticks |-> 3, info |-> ""],
     [line |-> 81, kind |-> "hash", level |-> 3, text |-> "Context Splitting"],
     [line |-> 87, kind |-> "fence", ticks |-> 3, info |-> "jsx"],
     [line |-> 88, kind |-> "esm", stmt |-> "import", from |-> "react", relative |-> FALSE],
     [line |-> 89, kind |-> "esm", stmt |-> "import", from |-> "./cartReducer", relative |-> TRUE],
     [line |-> 111, kind |-> "fence", ticks |-> 3, info |-> ""],
     [line |-> 117, kind |-> "fence", ticks |-> 3, info |-> "jsx"],
     [line |-> 118, kind |-> "esm", stmt |-> "import", from |-> "react", relative |-> FALSE],
     [line |-> 119, kind |-> "esm", stmt |-> "import", from |-> "./SplitCartContext", relative |-> TRUE],
     [line |-> 125, kind |-> "fence", ticks |-> 3, info |-> ""],
     [line |-> 127, kind |-> "hash", level |-> 2, text |-> "Wrapping Up"],
     [line |-> 131, kind |-> "hash", level |-> 1, text |-> "Cheatsheet: Optimizing Context API with Memoization and Context Splitting"],
     [line |-> 137, kind |-> "hash", level |-> 2, text |-> "Online Shopping Cart - Case Study"],
     [line |-> 142, kind |-> "fence", ticks |-> 3, info |-> "jsx"],
     [line |-> 143, kind |-> "esm", stmt |-> "import", from |-> "react", relative |-> FALSE],
     [line |-> 144, kind |-> "esm", stmt |-> "import", from |-> "./cartReducer", relative |-> TRUE],
     [line |-> 163, kind |-> "fence", ticks |-> 3, info |-> ""],
     [line |-> 165, kind |-> "hash", level |-> 2, text |-> "The Problem - Unwanted Guests (aka Unnecessary Re-Renders)"],
     [line |-> 170, kind |-> "fence", ticks |-> 3, info |-> "jsx"],
     [line |-> 171, kind |-> "esm", stmt |-> "import", from |-> "react", relative |-> FALSE],
     [line |-> 172, kind |-> "esm", stmt |-> "import", from |-> "./CartContext", relative |-> TRUE],
     [line |-> 178, kind |-> "fence", ticks |-> 3, info |-> ""],
     [line |-> 182, kind |-> "hash", level |-> 2, text |-> "The Solution - Memoization and Context Splitting"],
     [line |-> 184, kind |-> "hash", level |-> 3, text |-> "Memoization"],
     [line |-> 189, kind |-> "fence", ticks |-> 3, info |-> "jsx"],
     [line |-> 190, kind |-> "esm", stmt |-> "import", from |-> "react", relative |-> FALSE],
     [line |-> 191, kind |-> "esm", stmt |-> "import", from |-> "./cartReducer", relative |-> TRUE],
     [line |-> 206, kind |-> "fence", ticks |-> 3, info |-> ""],
     [line |-> 208, kind |-> "hash", level |-> 3, text |-> "Context Splitting"],
     [line |-> 213, kind |-> "fence", ticks |-> 3, info |-> "jsx"],
     [line |-> 214, kind |-> "esm", stmt |-> "import", from |-> "react", relative |-> FALSE],
     [line |-> 215, kind |-> "esm", stmt |-> "import", from |-> "./cartReducer", relative |-> TRUE],
     [line |-> 239, kind |-> "fence", ticks |-> 3, info |-> ""],
     [line |-> 244, kind |-> "fence", ticks |-> 3, info |-> "jsx"],
     [line |-> 245, kind |-> "esm", stmt |-> "import", from |-> "react", relative |-> FALSE],
     [line |-> 246, kind |-> "esm", stmt |-> "import", from |-> "./SplitCartContext", relative |-> TRUE],
     [line |-> 252, kind |-> "fence", ticks |-> 3, info |-> ""],
     [line |-> 254, kind |-> "hash", level |-> 2, text |-> "In Conclusion"]
   >>]

\* src/pages/react-cheatsheets/react-performance-debugging/profiling-components-with-react-devtools.mdx
Doc_profiling_components_with_react_devtools ==
  [src |-> "src/pages/react-cheatsheets/react-performance-debugging/profiling-components-with-react-devtools.mdx",
   path |-> [known |-> TRUE, dir |-> <<"react-cheatsheets", "react-performance-debugging">>, base |-> "profiling-components-with-react-devtools", ext |-> "mdx"],
   nlines |-> 100,
   frontmatter |-> <<>>,
   marks |-> <<
     [line |-> 1, kind |-> "hash", level |-> 1, text |-> "React Component Profiling Cheatsheet"],
     [line |-> 5, kind |-> "hash", level |-> 3, text |-> "Accessing the Profiler"],
     [line |-> 10, kind |-> "hash", level |-> 3, text |-> "Starting and Stopping the Profiling Session"],
     [line |-> 16, kind |-> "hash", level |-> 3, text |-> "Analyzing the Results"],
     [line |-> 24, kind |-> "hash", level |-> 3, text |-> "Understanding the Flamegraph"],
     [line |-> 34, kind |-> "hash", level |-> 3, text |-> "Selecting a Commit"],
     [line |-> 38, kind |-> "hash", level |-> 3, text |-> "Inspecting a Component"],
     [line |-> 44, kind |-> "hash", level |-> 3, text |-> "Analyzing the Results"],
     [line |-> 50, kind |-> "hash", level |-> 3, text |-> "Profiling Options"],
     [line |-> 57, kind |-> "hash", level |-> 3, text |-> "Case Study 1: Profiling a Slow List Component"],
     [line |-> 77, kind |-> "hash", level |-> 3, text |-> "Case Study 2: Profiling a Complex Form Component"]
   >>]

\* src/pages/react-cheatsheets/react-performance-debugging/suspense-and-concurrent-mode-in-react-18.mdx
Doc_suspense_and_concurrent_mode_in_react_18 ==
  [src |-> "src/pages/react-cheatsheets/react-performance-debugging/suspense-and-concurrent-mode-in-react-18.mdx",
   path |-> [known |-> TRUE, dir |-> <<"react-cheatsheets", "react-performance-debugging">>, base |-> "suspense-and-concurrent-mode-in-react-18", ext |-> "mdx"],
   nlines |-> 94,
   frontmatter |-> <<>>,
   marks |-> <<
     [line |-> 1, kind |-> "hash", level |-> 1, text |-> "Cheatsheet: Dipping Into Suspense & Concurrent Mode with TypeScript & React"],
     [line |-> 5, kind |-> "hash", level |-> 2, text |-> "Setting the Stage - Loading States and Janky User Experience"],
     [line |-> 10, kind |-> "fence", ticks |-> 3, info |-> "typescript"],
     [line |-> 11, kind |-> "esm", stmt |-> "import", from |-> "react", relative |-> FALSE],
     [line |-> 12, kind |-> "esm", stmt |-> "import", from |-> "./api", relative |-> TRUE],
     [line |-> 32, kind |-> "esm", stmt |-> "export", from |-> "", relative |-> FALSE],
     [line |-> 33, kind |-> "fence", ticks |-> 3, info |-> ""],
     [line |-> 35, kind |-> "hash", level |-> 2, text |-> "The New Kids on the Block - Suspense and Concurrent Mode"],
     [line |-> 42, kind |-> "fence", ticks |-> 3, info |-> "typescript"],
     [line |-> 43, kind |-> "esm", stmt |-> "import", from |-> "./api", relative |-> TRUE],
     [line |-> 45, kind |-> "esm", stmt |-> "export", from |-> "", relative |-> FALSE],
     [line |-> 46, kind |-> "fence", ticks |-> 3, info |-> ""],
     [line |-> 51, kind |-> "fence", ticks |-> 3, info |-> "typescript"],
     [line |-> 52, kind |-> "esm", stmt |-> "import", from |-> "react", relative |-> FALSE],
     [line |-> 53, kind |-> "esm", stmt |-> "import", from |-> "./suspenseCache", relative |-> TRUE],
     [line |-> 71, kind |-> "esm", stmt |-> "export", from |-> "", relative |-> FALSE],
     [line |-> 72, kind |-> "fence", ticks |-> 3, info |-> ""],
     [line |-> 77, kind |-> "fence", ticks |-> 3, info |-> "typescript"],
     [line |-> 78, kind |-> "esm", stmt |-> "import", from |-> "react", relative |-> FALSE],
     [line |-> 79, kind |-> "esm", stmt |-> "import", from |-> "./ProductList", relative |-> TRUE],
     [line |-> 87, kind |-> "esm", stmt |-> "export", from |-> "", relative |-> FALSE],
     [line |-> 88, kind |-> "fence", ticks |-> 3, info |-> ""],
     [line |-> 90, kind |-> "hash", level |-> 2, text |-> "The Takeaway"]
   >>]

\* src/pages/react-cheatsheets/using-passes/1-pass-one.mdx
Doc_1_pass_one ==
  [src |-> "src/pages/react-cheatsheets/using-passes/1-pass-one.mdx",
   path |-> [known |-> TRUE, dir |-> <<"react-cheatsheets", "using-passes">>, base |-> "1-pass-one", ext |-> "mdx"],
   nlines |-> 150,
   frontmatter |-> <<>>,
   marks |-> <<
     [line |-> 1, kind |-> "hash", level |-> 1, text |-> "Pass One: Getting it done"],
     [line |-> 3, kind |-> "hash", level |-> 4, text |-> "When? Immediately."],
     [line |-> 4, kind |-> "hash", level |-> 4, text |-> "Objective: It works. That's it."],
     [line |-> 12, kind |-> "fence", ticks |-> 3, info |-> "tsx"],
     [line |-> 15, kind |-> "esm", stmt |-> "import", from |-> "react", relative |-> FALSE],
     [line |-> 38, kind |-> "esm", stmt |-> "export", from |-> "", relative |-> FALSE],
     [line |-> 41, kind |-> "fence", ticks |-> 3, info |-> ""],
     [line |-> 42, kind |-> "hash", level |-> 2, text |-> "Testing: Staying on point at each pass"],
     [line |-> 48, kind |-> "hash", level |-> 4, text |-> "Pass One: Get it done"],
     [line |-> 52, kind |-> "fence", ticks |-> 3, info |-> "tsx"],
     [line |-> 54, kind |-> "esm", stmt |-> "import", from |-> "@testing-library/react", relative |-> FALSE],
     [line |-> 55, kind |-> "esm", stmt |-> "import", from |-> "./user-profile", relative |-> TRUE],
     [line |-> 60, kind |-> "fence", ticks |-> 3, info |-> ""],
     [line |-> 62, kind |-> "hash", level |-> 4, text |-> "Pass Two: Make it right"],
     [line |-> 66, kind |-> "fence", ticks |-> 3, info |-> "tsx"],
     [line |-> 68, kind |-> "esm", stmt |-> "import", from |-> "@testing-library/react", relative |-> FALSE],
     [line |-> 69, kind |-> "esm", stmt |-> "import", from |-> "./user-profile", relative |-> TRUE],
     [line |-> 86, kind |-> "fence", ticks |-> 3, info |-> ""],
     [line |-> 88, kind |-> "hash", level |-> 4, text |-> "Pass Three: Make it good"],
     [line |-> 92, kind |-> "fence", ticks |-> 3, info |-> "tsx"],
     [line |-> 94, kind |-> "esm", stmt |-> "import", from |-> "@testing-library/react-hooks", relative |-> FALSE],
     [line |-> 95, kind |-> "esm", stmt |-> "import", from |-> "./hooks/useUser", relative |-> TRUE],
     [line |-> 108, kind |-> "fence", ticks |-> 3, info |-> ""],
     [line |-> 110, kind |-> "hash", level |-> 4, text |-> "Pass Four: Make it resilient"],
     [line |-> 114, kind |-> "fence", ticks |-> 3, info |-> "tsx"],
     [line |-> 116, kind |-> "esm", stmt |-> "import", from |-> "@testing-library/react", relative |-> FALSE],
     [line |-> 117, kind |-> "esm", stmt |-> "import", from |-> "./user-profile", relative |-> TRUE],
     [line |-> 118, kind |-> "esm", stmt |-> "import", from |-> "./hooks/useUser", relative |-> TRUE],
     [line |-> 148, kind |-> "fence", ticks |-> 3, info |-> ""]
   >>]

\* src/pages/react-cheatsheets/using-passes/2-pass-two.mdx
Doc_2_pass_two ==
  [src |-> "src/pages/react-cheatsheets/using-passes/2-pass-two.mdx",
   path |-> [known |-> TRUE, dir |-> <<"react-cheatsheets", "using-passes">>, base |-> "2-pass-two", ext |-> "mdx"],
   nlines |-> 34,
   frontmatter |-> <<>>,
   marks |-> <<
     [line |-> 1, kind |-> "hash", level |-> 1, text |-> "Pass Two: Making it right"],
     [line |-> 3, kind |-> "hash", level |-> 4, text |-> "Objective: It works as expected and is understandable."],
     [line |-> 7, kind |-> "fence", ticks |-> 3, info |-> "tsx"],
     [line |-> 16, kind |-> "esm", stmt |-> "export", from |-> "", relative |-> FALSE],
     [line |-> 34, kind |-> "fence", ticks |-> 3, info |-> ""]
   >>]

\* src/pages/react-cheatsheets/using-passes/5-using-passes.mdx
Doc_5_using_passes ==
  [src |-> "src/pages/react-cheatsheets/using-passes/5-using-passes.mdx",
   path |-> [known |-> TRUE, dir |-> <<"react-cheatsheets", "using-passes">>, base |-> "5-using-passes", ext |-> "mdx"],
   nlines |-> 18,
   frontmatter |-> <<>>,
   marks |-> <<
     [line |-> 1, kind |-> "hash", level |-> 3, text |-> "Some Thoughts on #CodingPasses"]
   >>]

\* src/pages/scraping-guide/advanced-css-selector-guide.mdx
Doc_advanced_css_selector_guide ==
  [src |-> "src/pages/scraping-guide/advanced-css-selector-guide.mdx",
   path |-> [known |-> TRUE, dir |-> <<"scraping-guide">>, base |-> "advanced-css-selector-guide", ext |-> "mdx"],
   nlines |-> 318,
   frontmatter |-> <<>>,
   marks |-> <<
     [line |-> 1, kind |-> "hash", level |-> 1, text |-> "Cheatsheet: Advanced CSS Selector Patterns for Console Usage"],
     [line |-> 5, kind |-> "fence", ticks |-> 3, info |-> "jsx"],
     [line |-> 17, kind |-> "fence", ticks |-> 3, info |-> ""],
     [line |-> 19, kind |-> "hash", level |-> 2, text |-> "1. Attribute Selectors"],
     [line |-> 25, kind |-> "fence", ticks |-> 3, info |-> "javascript"],
     [line |-> 28, kind |-> "fence", ticks |-> 3, info |-> ""],
     [line |-> 34, kind |-> "fence", ticks |-> 3, info |-> "javascript"],
     [line |-> 37, kind |-> "fence", ticks |-> 3, info |-> ""],
     [line |-> 43, kind |-> "fence", ticks |-> 3, info |-> "javascript"],
     [line |-> 46, kind |-> "fence", ticks |-> 3, info |-> ""],
     [line |-> 52, kind |-> "fence", ticks |-> 3, info |-> "javascript"],
     [line |-> 55, kind |-> "fence", ticks |-> 3, info |-> ""],
     [line |-> 61, kind |-> "fence", ticks |-> 3, info |-> "javascript"],
     [line |-> 64, kind |-> "fence", ticks |-> 3, info |-> ""],
     [line |-> 70, kind |-> "fence", ticks |-> 3, info |-> "javascript"],
     [line |-> 72, kind |-> "fence", ticks |-> 3, info |-> ""],
     [line |-> 75, kind |-> "fence", ticks |-> 3, info |-> "javascript"],
     [line |-> 77, kind |-> "fence", ticks |-> 3, info |-> ""],
     [line |-> 84, kind |-> "fence", ticks |-> 3, info |-> "javascript"],
     [line |-> 86, kind |-> "fence", ticks |-> 3, info |-> ""],
     [line |-> 89, kind |-> "fence", ticks |-> 3, info |-> "javascript"],
     [line |-> 91, kind |-> "fence", ticks |-> 3, info |-> ""],
     [line |-> 98, kind |-> "fence", ticks |-> 3, info |-> "javascript"],
     [line |-> 100, kind |-> "fence", ticks |-> 3, info |-> ""],
     [line |-> 104, kind |-> "hash", level |-> 2, text |-> "2. Pseudo-Classes"],
     [line |-> 108, kind |-> "fence", ticks |-> 3, info |-> "javascript"],
     [line |-> 111, kind |-> "fence", ticks |-> 3, info |-> ""],
     [line |-> 115, kind |-> "fence", ticks |-> 3, info |-> "javascript"],
     [line |-> 118, kind |-> "fence", ticks |-> 3, info |-> ""],
     [line |-> 122, kind |-> "fence", ticks |-> 3, info |-> "javascript"],
     [line |-> 125, kind |-> "fence", ticks |-> 3, info |-> ""],
     [line |-> 129, kind |-> "fence", ticks |-> 3, info |-> "javascript"],
     [line |-> 134, kind |-> "fence", ticks |-> 3, info |-> ""],
     [line |-> 138, kind |-> "fence", ticks |-> 3, info |-> "javascript"],
     [line |-> 141, kind |-> "fence", ticks |-> 3, info |-> ""],
     [line |-> 145, kind |-> "fence", ticks |-> 3, info |-> "javascript"],
     [line |-> 148, kind |-> "fence", ticks |-> 3, info |-> ""],
     [line |-> 152, kind |-> "fence", ticks |-> 3, info |-> "javascript"],
     [line |-> 155, kind |-> "fence", ticks |-> 3, info |-> ""],
     [line |-> 159, kind |-> "fence", ticks |-> 3, info |-> "javascript"],
     [line |-> 162, kind |-> "fence", ticks |-> 3, info |-> ""],
     [line |-> 166, kind |-> "fence", ticks |-> 3, info |-> "javascript"],
     [line |-> 169, kind |-> "fence", ticks |-> 3, info |-> ""],
     [line |-> 171, kind |-> "hash", level |-> 2, text |-> "3. Combining Selectors"],
     [line |-> 175, kind |-> "fence", ticks |-> 3, info |-> "javascript"],
     [line |-> 179, kind |-> "fence", ticks |-> 3, info |-> ""],
     [line |-> 183, kind |-> "fence", ticks |-> 3, info |-> "javascript"],
     [line |-> 186, kind |-> "fence", ticks |-> 3, info |-> ""],
     [line |-> 190, kind |-> "fence", ticks |-> 3, info |-> "javascript"],
     [line |-> 193, kind |-> "fence", ticks |-> 3, info |-> ""],
     [line |-> 197, kind |-> "fence", ticks |-> 3, info |-> "javascript"],
     [line |-> 200, kind |-> "fence", ticks |-> 3, info |-> ""],
     [line |-> 203, kind |-> "hash", level |-> 2, text |-> "Scraping Literally Anything: Advanced Edition"],
     [line |-> 206, kind |-> "hash", level |-> 3, text |-> "Mapping D.QSA + CSS Selectors"],
     [line |-> 210, kind |-> "fence", ticks |-> 3, info |-> "javascript"],
     [line |-> 212, kind |-> "fence", ticks |-> 3, info |-> ""],
     [line |-> 214, kind |-> "hash", level |-> 3, text |-> "Examples of Matching"],
     [line |-> 218, kind |-> "fence", ticks |-> 3, info |-> "javascript"],
     [line |-> 220, kind |-> "fence", ticks |-> 3, info |-> ""],
     [line |-> 222, kind |-> "hash", level |-> 3, text |-> "Mutation Observers"],
     [line |-> 226, kind |-> "hash", level |-> 3, text |-> "DQSA Shortcut"],
     [line |-> 230, kind |-> "hash", level |-> 2, text |-> "Advanced Puppeteer Techniques"],
     [line |-> 232, kind |-> "hash", level |-> 3, text |-> "Network Request Intercepting"],
     [line |-> 243, kind |-> "fence", ticks |-> 3, info |-> "javascript"],
     [line |-> 264, kind |-> "fence", ticks |-> 3, info |-> ""],
     [line |-> 266, kind |-> "hash", level |-> 3, text |-> "Client Spoofing"],
     [line |-> 272, kind |-> "hash", level |-> 4, text |-> "How to Find Endpoints"],
     [line |-> 280, kind |-> "hash", level |-> 4, text |-> "Make the Request from Within the Page Evaluation"],
     [line |-> 288, kind |-> "hash", level |-> 3, text |-> "Intercepting Third-Party Libraries"],
     [line |-> 294, kind |-> "hash", level |-> 3, text |-> "Automating Endpoint Searches Through Crawling"],
     [line |-> 298, kind |-> "fence", ticks |-> 3, info |-> "javascript"],
     [line |-> 310, kind |-> "fence", ticks |-> 3, info |-> ""],
     [line |-> 312, kind |-> "hash", level |-> 2, text |-> "Other Scraping Techniques"],
     [line |-> 314, kind |-> "hash", level |-> 3, text |-> "TamperMonkey Snippets"]
   >>]

\* src/pages/scraping-guide/collecting-paginated-data-easily.mdx
Doc_collecting_paginated_data_easily ==
  [src |-> "src/pages/scraping-guide/collecting-paginated-data-easily.mdx",
   path |-> [known |-> TRUE, dir |-> <<"scraping-guide">>, base |-> "collecting-paginated-data-easily", ext |-> "mdx"],
   nlines |-> 70,
   frontmatter |-> <<>>,
   marks |-> <<
     [line |-> 1, kind |-> "fence", ticks |-> 3, info |-> "tsx"],
     [line |-> 2, kind |-> "esm", stmt |-> "import", from |-> "axios", relative |-> FALSE],
     [line |-> 70, kind |-> "fence", ticks |-> 3, info |-> ""]
   >>]

\* src/pages/scraping-guide/manipulate-dom-with-console-commands.mdx
Doc_manipulate_dom_with_console_commands ==
  [src |-> "src/pages/scraping-guide/manipulate-dom-with-console-commands.mdx",
   path |-> [known |-> TRUE, dir |-> <<"scraping-guide">>, base |-> "manipulate-dom-with-console-commands", ext |-> "mdx"],
   nlines |-> 145,
   frontmatter |-> <<>>,
   marks |-> <<
     [line |-> 1, kind |-> "hash", level |-> 1, text |-> "Cheatsheet: Advanced DOM Manipulation & Web Scraping Techniques Using the Console"],
     [line |-> 3, kind |-> "hash", level |-> 2, text |-> "1. Selecting Elements"],
     [line |-> 9, kind |-> "fence", ticks |-> 3, info |-> "javascript"],
     [line |-> 11, kind |-> "fence", ticks |-> 3, info |-> ""],
     [line |-> 17, kind |-> "fence", ticks |-> 3, info |-> "javascript"],
     [line |-> 19, kind |-> "fence", ticks |-> 3, info |-> ""],
     [line |-> 25, kind |-> "fence", ticks |-> 3, info |-> "javascript"],
     [line |-> 27, kind |-> "fence", ticks |-> 3, info |-> ""],
     [line |-> 33, kind |-> "fence", ticks |-> 3, info |-> "javascript"],
     [line |-> 35, kind |-> "fence", ticks |-> 3, info |-> ""],
     [line |-> 37, kind |-> "hash", level |-> 2, text |-> "2. Manipulating Elements"],
     [line |-> 43, kind |-> "fence", ticks |-> 3, info |-> "javascript"],
     [line |-> 45, kind |-> "fence", ticks |-> 3, info |-> ""],
     [line |-> 51, kind |-> "fence", ticks |-> 3, info |-> "javascript"],
     [line |-> 53, kind |-> "fence", ticks |-> 3, info |-> ""],
     [line |-> 59, kind |-> "fence", ticks |-> 3, info |-> "javascript"],
     [line |-> 61, kind |-> "fence", ticks |-> 3, info |-> ""],
     [line |-> 67, kind |-> "fence", ticks |-> 3, info |-> "javascript"],
     [line |-> 69, kind |-> "fence", ticks |-> 3, info |-> ""],
     [line |-> 71, kind |-> "hash", level |-> 2, text |-> "3. Web Scraping Techniques"],
     [line |-> 77, kind |-> "fence", ticks |-> 3, info |-> "javascript"],
     [line |-> 79, kind |-> "fence", ticks |-> 3, info |-> ""],
     [line |-> 85, kind |-> "fence", ticks |-> 3, info |-> "javascript"],
     [line |-> 87, kind |-> "fence", ticks |-> 3, info |-> ""],
     [line |-> 93, kind |-> "fence", ticks |-> 3, info |-> "javascript"],
     [line |-> 95, kind |-> "fence", ticks |-> 3, info |-> ""],
     [line |-> 101, kind |-> "fence", ticks |-> 3, info |-> "javascript"],
     [line |-> 105, kind |-> "fence", ticks |-> 3, info |-> ""],
     [line |-> 107, kind |-> "hash", level |-> 2, text |-> "4. Feature Augmentation"],
     [line |-> 113, kind |-> "fence", ticks |-> 3, info |-> "javascript"],
     [line |-> 117, kind |-> "fence", ticks |-> 3, info |-> ""],
     [line |-> 123, kind |-> "fence", ticks |-> 3, info |-> "javascript"],
     [line |-> 127, kind |-> "fence", ticks |-> 3, info |-> ""],
     [line |-> 133, kind |-> "fence", ticks |-> 3, info |-> "javascript"],
     [line |-> 136, kind |-> "fence", ticks |-> 3, info |-> ""],
     [line |-> 142, kind |-> "fence", ticks |-> 3, info |-> "javascript"],
     [line |-> 144, kind |-> "fence", ticks |-> 3, info |-> ""]
   >>]

\* src/pages/scraping-guide/puppeteer-crash-course.mdx
Doc_puppeteer_crash_course ==
  [src |-> "src/pages/scraping-guide/puppeteer-crash-course.mdx",
   path |-> [known |-> TRUE, dir |-> <<"scraping-guide">>, base |-> "puppeteer-crash-course", ext |-> "mdx"],
   nlines |-> 203,
   frontmatter |-> <<>>,
   marks |-> <<
     [line |-> 1, kind |-> "hash", level |-> 1, text |-> "Advanced Cheatsheet: Puppeteer for Web Scraping"],
     [line |-> 5, kind |-> "hash", level |-> 2, text |-> "1. Setup and Navigation"],
     [line |-> 8, kind |-> "fence", ticks |-> 3, info |-> ""],
     [line |-> 10, kind |-> "fence", ticks |-> 3, info |-> ""],
     [line |-> 14, kind |-> "fence", ticks |-> 3, info |-> "javascript"],
     [line |-> 26, kind |-> "fence", ticks |-> 3, info |-> ""],
     [line |-> 28, kind |-> "hash", level |-> 2, text |-> "2. Waiting for Elements"],
     [line |-> 32, kind |-> "fence", ticks |-> 3, info |-> "javascript"],
     [line |-> 41, kind |-> "fence", ticks |-> 3, info |-> ""],
     [line |-> 43, kind |-> "hash", level |-> 2, text |-> "3. Using Mutation Observers"],
     [line |-> 47, kind |-> "fence", ticks |-> 3, info |-> "javascript"],
     [line |-> 59, kind |-> "fence", ticks |-> 3, info |-> ""],
     [line |-> 61, kind |-> "hash", level |-> 2, text |-> "4. Evaluating Functions in Page Context"],
     [line |-> 65, kind |-> "fence", ticks |-> 3, info |-> "javascript"],
     [line |-> 70, kind |-> "fence", ticks |-> 3, info |-> ""],
     [line |-> 74, kind |-> "hash", level |-> 2, text |-> "5. Common Gotchas"],
     [line |-> 88, kind |-> "hash", level |-> 2, text |-> "6. Interacting with the Page: Inputs, Clicks, and Looking Human"],
     [line |-> 96, kind |-> "fence", ticks |-> 3, info |-> "javascript"],
     [line |-> 98, kind |-> "fence", ticks |-> 3, info |-> ""],
     [line |-> 102, kind |-> "fence", ticks |-> 3, info |-> "javascript"],
     [line |-> 104, kind |-> "fence", ticks |-> 3, info |-> ""],
     [line |-> 110, kind |-> "fence", ticks |-> 3, info |-> "javascript"],
     [line |-> 112, kind |-> "fence", ticks |-> 3, info |-> ""],
     [line |-> 118, kind |-> "fence", ticks |-> 3, info |-> "javascript"],
     [line |-> 122, kind |-> "fence", ticks |-> 3, info |-> ""],
     [line |-> 130, kind |-> "fence", ticks |-> 3, info |-> "javascript"],
     [line |-> 133, kind |-> "fence", ticks |-> 3, info |-> ""],
     [line |-> 137, kind |-> "fence", ticks |-> 3, info |-> "javascript"],
     [line |-> 140, kind |-> "fence", ticks |-> 3, info |-> ""],
     [line |-> 144, kind |-> "fence", ticks |-> 3, info |-> "javascript"],
     [line |-> 148, kind |-> "fence", ticks |-> 3, info |-> ""],
     [line |-> 152, kind |-> "hash", level |-> 2, text |-> "7. Staying Under The Radar: Proxy, Stealth, and More"],
     [line |-> 160, kind |-> "fence", ticks |-> 3, info |-> "javascript"],
     [line |-> 167, kind |-> "fence", ticks |-> 3, info |-> ""],
     [line |-> 175, kind |-> "fence", ticks |-> 3, info |-> "javascript"],
     [line |-> 182, kind |-> "fence", ticks |-> 3, info |-> ""],
     [line |-> 188, kind |-> "fence", ticks |-> 3, info |-> "javascript"],
     [line |-> 191, kind |-> "fence", ticks |-> 3, info |-> ""],
     [line |-> 199, kind |-> "fence", ticks |-> 3, info |-> "javascript"],
     [line |-> 201, kind |-> "fence", ticks |-> 3, info |-> ""]
   >>]

\* src/pages/scraping-guide/structuring-your-puppeteer-scrape.mdx
Doc_structuring_your_puppeteer_scrape ==
  [src |-> "src/pages/scraping-guide/structuring-your-puppeteer-scrape.mdx",
   path |-> [known |-> TRUE, dir |-> <<"scraping-guide">>, base |-> "structuring-your-puppeteer-scrape", ext |-> "mdx"],
   nlines |-> 68,
   frontmatter |-> <<>>,
   marks |-> <<
     [line |-> 3, kind |-> "fence", ticks |-> 3, info |-> "typescript"],
     [line |-> 4, kind |-> "esm", stmt |-> "import", from |-> "puppeteer-extra", relative |-> FALSE],
     [line |-> 5, kind |-> "esm", stmt |-> "import", from |-> "puppeteer-extra-plugin-stealth", relative |-> FALSE],
     [line |-> 10, kind |-> "fence", ticks |-> 3, info |-> ""],
     [line |-> 16, kind |-> "fence", ticks |-> 3, info |-> "typescript"],
     [line |-> 18, kind |-> "fence", ticks |-> 3, info |-> ""],
     [line |-> 24, kind |-> "fence", ticks |-> 3, info |-> "typescript"],
     [line |-> 37, kind |-> "fence", ticks |-> 3, info |-> ""],
     [line |-> 43, kind |-> "fence", ticks |-> 3, info |-> "typescript"],
     [line |-> 47, kind |-> "fence", ticks |-> 3, info |-> ""],
     [line |-> 53, kind |-> "fence", ticks |-> 3, info |-> "typescript"],
     [line |-> 54, kind |-> "esm", stmt |-> "import", from |-> "fs", relative |-> FALSE],
     [line |-> 56, kind |-> "fence", ticks |-> 3, info |-> ""],
     [line |-> 62, kind |-> "fence", ticks |-> 3, info |-> "typescript"],
     [line |-> 64, kind |-> "fence", ticks |-> 3, info |-> ""]
   >>]

\* src/unnamed/part_000
Doc_part_000 ==
  [src |-> "src/unnamed/part_000",
   path |-> [known |-> FALSE],
   nlines |-> 112,
   frontmatter |-> <<>>,
   marks |-> <<
     [line |-> 1, kind |-> "hash", level |-> 1, text |-> "Cheatsheet: Understanding Render Cycles in React"],
     [line |-> 5, kind |-> "hash", level |-> 2, text |-> "When Does a Component Render?"],
     [line |-> 22, kind |-> "fence", ticks |-> 3, info |-> "typescript"],
     [line |-> 23, kind |-> "esm", stmt |-> "import", from |-> "react", relative |-> FALSE],
     [line |-> 24, kind |-> "esm", stmt |-> "import", from |-> "./ChildComponent", relative |-> TRUE],
     [line |-> 37, kind |-> "esm", stmt |-> "export", from |-> "", relative |-> FALSE],
     [line |-> 38, kind |-> "fence", ticks |-> 3, info |-> ""],
     [line |-> 41, kind |-> "fence", ticks |-> 3, info |-> "typescript"],
     [line |-> 42, kind |-> "esm", stmt |-> "import", from |-> "react", relative |-> FALSE],
     [line |-> 53, kind |-> "esm", stmt |-> "export", from |-> "", relative |-> FALSE],
     [line |-> 54, kind |-> "fence", ticks |-> 3, info |-> ""],
     [line |-> 56, kind |-> "hash", level |-> 2, text |-> "Mitigating Unnecessary Rerenders"],
     [line |-> 60, kind |-> "hash", level |-> 3, text |-> "Using React.memo"],
     [line |-> 65, kind |-> "fence", ticks |-> 3, info |-> "typescript"],
     [line |-> 66, kind |-> "esm", stmt |-> "import", from |-> "react", relative |-> FALSE],
     [line |-> 77, kind |-> "esm", stmt |-> "export", from |-> "", relative |-> FALSE],
     [line |-> 78, kind |-> "fence", ticks |-> 3, info |-> ""],
     [line |-> 80, kind |-> "hash", level |-> 3, text |-> "Using useCallback and useMemo hooks"],
     [line |-> 84, kind |-> "fence", ticks |-> 3, info |-> "typescript"],
     [line |-> 85, kind |-> "esm", stmt |-> "import", from |-> "react", relative |-> FALSE],
     [line |-> 86, kind |-> "esm", stmt |-> "import", from |-> "./ChildComponent", relative |-> TRUE],
     [line |-> 105, kind |-> "esm", stmt |-> "export", from |-> "", relative |-> FALSE],
     [line |-> 106, kind |-> "fence", ticks |-> 3, info |-> ""]
   >>]

\* src/unnamed/part_001
Doc_part_001 ==
  [src |-> "src/unnamed/part_001",
   path |-> [known |-> FALSE],
   nlines |-> 90,
   frontmatter |-> <<>>,
   marks |-> <<
     [line |-> 5, kind |-> "hash", level |-> 2, text |-> "Case Study 1: Debouncing API Calls in a Search Component"],
     [line |-> 13, kind |-> "fence", ticks |-> 3, info |-> "jsx"],
     [line |-> 14, kind |-> "esm", stmt |-> "import", from |-> "react", relative |-> FALSE],
     [line |-> 15, kind |-> "esm", stmt |-> "import", from |-> "axios", relative |-> FALSE],
     [line |-> 32, kind |-> "fence", ticks |-> 3, info |-> ""],
     [line |-> 38, kind |-> "fence", ticks |-> 3, info |-> "jsx"],
     [line |-> 39, kind |-> "esm", stmt |-> "import", from |-> "react", relative |-> FALSE],
     [line |-> 40, kind |-> "esm", stmt |-> "import", from |-> "axios", relative |-> FALSE],
     [line |-> 57, kind |-> "fence", ticks |-> 3, info |-> ""],
     [line |-> 63, kind |-> "fence", ticks |-> 3, info |-> "jsx"],
     [line |-> 64, kind |-> "esm", stmt |-> "import", from |-> "react", relative |-> FALSE],
     [line |-> 65, kind |-> "esm", stmt |-> "import", from |-> "axios", relative |-> FALSE],
     [line |-> 86, kind |-> "fence", ticks |-> 3, info |-> ""]
   >>]

\* src/unnamed/part_002
Doc_part_002 ==
  [src |-> "src/unnamed/part_002",
   path |-> [known |-> FALSE],
   nlines |-> 104,
   frontmatter |-> <<>>,
   marks |-> <<
     [line |-> 1, kind |-> "hash", level |-> 1, text |-> "Cheatsheet: Assessing App Performance and Identifying Optimal Moments for Optimization in React"],
     [line |-> 5, kind |-> "hash", level |-> 2, text |-> "Measuring App Performance"],
     [line |-> 15, kind |-> "hash", level |-> 2, text |-> "When to Consider Optimization"],
     [line |-> 25, kind |-> "hash", level |-> 2, text |-> "The Path to Optimization"],
     [line |-> 39, kind |-> "hash", level |-> 2, text |-> "Case Study 1: Profiling with React Developer Tools"],
     [line |-> 43, kind |-> "fence", ticks |-> 3, info |-> "jsx"],
     [line |-> 44, kind |-> "esm", stmt |-> "import", from |-> "react", relative |-> FALSE],
     [line |-> 56, kind |-> "esm", stmt |-> "export", from |-> "", relative |-> FALSE],
     [line |-> 57, kind |-> "fence", ticks |-> 3, info |-> ""],
     [line |-> 66, kind |-> "hash", level |-> 2, text |-> "Case Study 2: Auditing with Google Lighthouse"],
     [line |-> 70, kind |-> "fence", ticks |-> 3, info |-> "jsx"],
     [line |-> 71, kind |-> "esm", stmt |-> "import", from |-> "react", relative |-> FALSE],
     [line |-> 91, kind |-> "esm", stmt |-> "export", from |-> "", relative |-> FALSE],
     [line |-> 92, kind |-> "fence", ticks |-> 3, info |-> ""]
   >>]

\* src/unnamed/part_003
Doc_part_003 ==
  [src |-> "src/unnamed/part_003",
   path |-> [known |-> FALSE],
   nlines |-> 97,
   frontmatter |-> <<>>,
   marks |-> <<
     [line |-> 1, kind |-> "hash", level |-> 1, text |-> "Cheatsheet: Understanding useMemo and useCallback in React"],
     [line |-> 5, kind |-> "hash", level |-> 2, text |-> "useMemo:"],
     [line |-> 12, kind |-> "fence", ticks |-> 3, info |-> "typescript"],
     [line |-> 13, kind |-> "esm", stmt |-> "import", from |-> "react", relative |-> FALSE],
     [line |-> 39, kind |-> "esm", stmt |-> "export", from |-> "", relative |-> FALSE],
     [line |-> 40, kind |-> "fence", ticks |-> 3, info |-> ""],
     [line |-> 44, kind |-> "hash", level |-> 2, text |-> "useCallback:"],
     [line |-> 51, kind |-> "fence", ticks |-> 3, info |-> "typescript"],
     [line |-> 52, kind |-> "esm", stmt |-> "import", from |-> "react", relative |-> FALSE],
     [line |-> 53, kind |-> "esm", stmt |-> "import", from |-> "./ChildComponent", relative |-> TRUE],
     [line |-> 70, kind |-> "esm", stmt |-> "export", from |-> "", relative |-> FALSE],
     [line |-> 71, kind |-> "fence", ticks |-> 3, info |-> ""],
     [line |-> 74, kind |-> "fence", ticks |-> 3, info |-> "typescript"],
     [line |-> 75, kind |-> "esm", stmt |-> "import", from |-> "react", relative |-> FALSE],
     [line |-> 86, kind |-> "esm", stmt |-> "export", from |-> "", relative |-> FALSE],
     [line |-> 87, kind |-> "fence", ticks |-> 3, info |-> ""],
     [line |-> 91, kind |-> "hash", level |-> 2, text |-> "When to Use useMemo and useCallback"]
   >>]

\* src/unnamed/part_004
Doc_part_004 ==
  [src |-> "src/unnamed/part_004",
   path |-> [known |-> FALSE],
   nlines |-> 184,
   frontmatter |-> <<>>,
   marks |-> <<
     [line |-> 1, kind |-> "hash", level |-> 1, text |-> "How to ship fast using code passes."],
     [line |-> 5, kind |-> "hash", level |-> 2, text |-> "Pass One: Get it done"],
     [line |-> 7, kind |-> "hash", level |-> 4, text |-> "When? Immediately."],
     [line |-> 8, kind |-> "hash", level |-> 4, text |-> "Objective: It works. That's it."],
     [line |-> 16, kind |-> "fence", ticks |-> 3, info |-> "tsx"],
     [line |-> 19, kind |-> "esm", stmt |-> "import", from |-> "react", relative |-> FALSE],
     [line |-> 42, kind |-> "esm", stmt |-> "export", from |-> "", relative |-> FALSE],
     [line |-> 45, kind |-> "fence", ticks |-> 3, info |-> ""],
     [line |-> 47, kind |-> "hash", level |-> 4, text |-> "Pass Two: Make it right"],
     [line |-> 49, kind |-> "hash", level |-> 5, text |-> "Objective: It works as expected and is understandable."],
     [line |-> 53, kind |-> "fence", ticks |-> 3, info |-> "tsx"],
     [line |-> 62, kind |-> "esm", stmt |-> "export", from |-> "", relative |-> FALSE],
     [line |-> 80, kind |-> "fence", ticks |-> 3, info |-> ""],
     [line |-> 83, kind |-> "hash", level |-> 4, text |-> "Pass Three: Make it good"],
     [line |-> 85, kind |-> "hash", level |-> 5, text |-> "Objective: It's optimized and maintainable."],
     [line |-> 89, kind |-> "fence", ticks |-> 3, info |-> "tsx"],
     [line |-> 91, kind |-> "esm", stmt |-> "export", from |-> "", relative |-> FALSE],
     [line |-> 108, kind |-> "esm", stmt |-> "import", from |-> "./hooks/useUser", relative |-> TRUE],
     [line |-> 110, kind |-> "esm", stmt |-> "export", from |-> "", relative |-> FALSE],
     [line |-> 118, kind |-> "fence", ticks |-> 3, info |-> ""],
     [line |-> 120, kind |-> "hash", level |-> 4, text |-> "Pass Four: Make it resilient"],
     [line |-> 126, kind |-> "fence", ticks |-> 3, info |-> "tsx"],
     [line |-> 128, kind |-> "esm", stmt |-> "import", from |-> "react", relative |-> FALSE],
     [line |-> 137, kind |-> "esm", stmt |-> "export", from |-> "", relative |-> FALSE],
     [line |-> 162, kind |-> "esm", stmt |-> "import", from |-> "./hooks/useUser", relative |-> TRUE],
     [line |-> 164, kind |-> "esm", stmt |-> "export", from |-> "", relative |-> FALSE],
     [line |-> 180, kind |-> "fence", ticks |-> 3, info |-> ""]
   >>]

\* src/unnamed/part_005
Doc_part_005 ==
  [src |-> "src/unnamed/part_005",
   path |-> [known |-> FALSE],
   nlines |-> 41,
   frontmatter |-> <<>>,
   marks |-> <<
     [line |-> 1, kind |-> "hash", level |-> 4, text |-> "Pass Three: Getting it Fast"],
     [line |-> 3, kind |-> "hash", level |-> 5, text |-> "Objective: It's efficient and manageable."],
     [line |-> 11, kind |-> "fence", ticks |-> 3, info |-> "typescript"],
     [line |-> 13, kind |-> "esm", stmt |-> "export", from |-> "", relative |-> FALSE],
     [line |-> 30, kind |-> "esm", stmt |-> "import", from |-> "./hooks/useUser", relative |-> TRUE],
     [line |-> 32, kind |-> "esm", stmt |-> "export", from |-> "", relative |-> FALSE],
     [line |-> 39, kind |-> "fence", ticks |-> 3, info |-> ""]
   >>]

\* src/unnamed/part_006
Doc_part_006 ==
  [src |-> "src/unnamed/part_006",
   path |-> [known |-> FALSE],
   nlines |-> 100,
   frontmatter |-> <<>>,
   marks |-> <<
     [line |-> 1, kind |-> "hash", level |-> 1, text |-> "Advanced State Management with useReducer and useContext"],
     [line |-> 5, kind |-> "hash", level |-> 2, text |-> "Use Case: E-commerce Shopping Cart State Management"],
     [line |-> 13, kind |-> "fence", ticks |-> 3, info |-> "jsx"],
     [line |-> 14, kind |-> "esm", stmt |-> "import", from |-> "react", relative |-> FALSE],
     [line |-> 23, kind |-> "fence", ticks |-> 3, info |-> ""],
     [line |-> 31, kind |-> "fence", ticks |-> 3, info |-> "jsx"],
     [line |-> 32, kind |-> "esm", stmt |-> "import", from |-> "react", relative |-> FALSE],
     [line |-> 44, kind |-> "fence", ticks |-> 3, info |-> ""],
     [line |-> 52, kind |-> "fence", ticks |-> 3, info |-> "jsx"],
     [line |-> 53, kind |-> "esm", stmt |-> "import", from |-> "react", relative |-> FALSE],
     [line |-> 69, kind |-> "fence", ticks |-> 3, info |-> ""],
     [line |-> 73, kind |-> "hash", level |-> 1, text |-> "Considerations for useReducer and useContext"],
     [line |-> 83, kind |-> "hash", level |-> 1, text |-> "Alternatives to Consider"]
   >>]

\* src/unnamed/part_007
Doc_part_007 ==
  [src |-> "src/unnamed/part_007",
   path |-> [known |-> FALSE],
   nlines |-> 37,
   frontmatter |-> <<>>,
   marks |-> <<
     [line |-> 1, kind |-> "hash", level |-> 1, text |-> "Cheatsheet: Kebab-case for Component File Names"],
     [line |-> 9, kind |-> "fence", ticks |-> 3, info |-> "typescript"],
     [line |-> 11, kind |-> "esm", stmt |-> "export", from |-> "", relative |-> FALSE],
     [line |-> 14, kind |-> "fence", ticks |-> 3, info |-> ""],
     [line |-> 18, kind |-> "fence", ticks |-> 3, info |-> "typescript"],
     [line |-> 20, kind |-> "fence", ticks |-> 3, info |-> ""],
     [line |-> 26, kind |-> "fence", ticks |-> 3, info |-> "typescript"],
     [line |-> 28, kind |-> "fence", ticks |-> 3, info |-> ""]
   >>]

\* src/unnamed/part_008
Doc_part_008 ==
  [src |-> "src/unnamed/part_008",
   path |-> [known |-> FALSE],
   nlines |-> 111,
   frontmatter |-> <<>>,
   marks |-> <<
     [line |-> 1, kind |-> "hash", level |-> 1, text |-> "Mastering Salary Negotiations: The Hiring Manager's Playbook"],
     [line |-> 13, kind |-> "hash", level |-> 2, text |-> "1. Understand Market Rates"],
     [line |-> 17, kind |-> "hash", level |-> 3, text |-> "Case Study: Fair Compensation"],
     [line |-> 21, kind |-> "hash", level |-> 4, text |-> "Do:"],
     [line |-> 25, kind |-> "hash", level |-> 4, text |-> "Don't:"],
     [line |-> 29, kind |-> "hash", level |-> 2, text |-> "2. Offer a Comprehensive Package"],
     [line |-> 33, kind |-> "hash", level |-> 3, text |-> "Case Study: Compensation Package"],
     [line |-> 37, kind |-> "hash", level |-> 4, text |-> "Do:"],
     [line |-> 41, kind |-> "hash", level |-> 4, text |-> "Don't:"],
     [line |-> 45, kind |-> "hash", level |-> 2, text |-> "3. Respond to Competing Offers Tactfully"],
     [line |-> 49, kind |-> "hash", level |-> 3, text |-> "Case Study: Negotiating with Competing Offers"],
     [line |-> 53, kind |-> "hash", level |-> 4, text |-> "Do:"],
     [line |-> 57, kind |-> "hash", level |-> 4, text |-> "Don't:"],
     [line |-> 61, kind |-> "hash", level |-> 2, text |-> "4. Avoid Salary Anchoring"],
     [line |-> 65, kind |-> "hash", level |-> 3, text |-> "Case Study: Avoiding Anchoring"],
     [line |-> 69, kind |-> "hash", level |-> 4, text |-> "Do:"],
     [line |-> 73, kind |-> "hash", level |-> 4, text |-> "Don't:"],
     [line |-> 77, kind |-> "hash", level |-> 2, text |-> "5. Be Transparent and Fair"],
     [line |-> 81, kind |-> "hash", level |-> 3, text |-> "Case Study: Transparent Negotiation"],
     [line |-> 85, kind |-> "hash", level |-> 4, text |-> "Do:"],
     [line |-> 89, kind |-> "hash", level |-> 4, text |-> "Don't:"],
     [line |-> 93, kind |-> "hash", level |-> 2, text |-> "6. Be Flexible, But Ready to Let Go"],
     [line |-> 97, kind |-> "hash", level |-> 3, text |-> "Case Study: Agreeing to Disagree"],
     [line |-> 101, kind |-> "hash", level |-> 4, text |-> "Do:"],
     [line |-> 105, kind |-> "hash", level |-> 4, text |-> "Don't:"]
   >>]

\* The content corpus: every MDX document under src/, in path order.
Corpus ==
  << Doc_breaking_into_nontechnical_roles,
     Doc_dealing_with_vercel_vendor_lockin,
     Doc_custom_hooks_and_react_query,
     Doc_dx_first_state_management,
     Doc_structuring_your_components,
     Doc_utilizing_the_decorator_pattern,
     Doc_lazy_loading_components_with_react_lazy,
     Doc_offloading_to_web_workers,
     Doc_optimizing_api_calls_with_useeffect_and_usecallback,
     Doc_optimizing_context_api_with_memoization_and_context_splitting,
     Doc_profiling_components_with_react_devtools,
     Doc_suspense_and_concurrent_mode_in_react_18,
     Doc_1_pass_one,
     Doc_2_pass_two,
     Doc_5_using_passes,
     Doc_advanced_css_selector_guide,
     Doc_collecting_paginated_data_easily,
     Doc_manipulate_dom_with_console_commands,
     Doc_puppeteer_crash_course,
     Doc_structuring_your_puppeteer_scrape,
     Doc_part_000,
     Doc_part_001,
     Doc_part_002,
     Doc_part_003,
     Doc_part_004,
     Doc_part_005,
     Doc_part_006,
     Doc_part_007,
     Doc_part_008 >>

(***************************************************************************)
(* The build: the documentation-site generator reads the configuration and *)
(* renders the documents one by one.                                       *)
(***************************************************************************)

\* The fields the theme contract recognises, and those of its nested objects.
ThemeFields == {"logo", "project", "chat", "docsRepositoryBase", "footer"}

\* The shape the generator accepts: recognised fields only, with the nested
\* objects holding the recognised keys.
WellShaped(c) ==
  /\ DOMAIN c \subseteq ThemeFields
  /\ "project" \in DOMAIN c => DOMAIN c.project \subseteq {"link"}
  /\ "chat" \in DOMAIN c => DOMAIN c.chat \subseteq {"link"}
  /\ "footer" \in DOMAIN c => DOMAIN c.footer = {"text"}

\* The site route of a content file: its path below pages/ without the extension.
Route(path) == path.dir \o <<path.base>>

\* The fence state after a marked line: a fence line opens a fence when none is
\* open; inside a fence only a fence line without info string, at least as long
\* as the opening one, closes it.
FenceAfter(f, m) ==
  IF m.kind # "fence" THEN f
  ELSE IF f = 0 THEN m.ticks
  ELSE IF m.ticks >= f /\ m.info = "" THEN 0
  ELSE f

\* The title after a marked line: the text of the first heading outside a fence.
TitleAfter(f, t, m) ==
  IF m.kind = "hash" /\ f = 0 /\ t = <<>> THEN <<m.text>> ELSE t

\* The import/export statements after a marked line: those outside a fence.
EsmAfter(f, e, m) ==
  IF m.kind = "esm" /\ f = 0
  THEN e \cup {[stmt |-> m.stmt, from |-> m.from, relative |-> m.relative]}
  ELSE e

\* The title the frontmatter gives, if any.
FrontmatterTitle(d) ==
  IF \E i \in 1..Len(d.frontmatter) : d.frontmatter[i].key = "title"
  THEN <<d.frontmatter[CHOOSE i \in 1..Len(d.frontmatter) :
                          d.frontmatter[i].key = "title"].value>>
  ELSE <<>>

\* The page built from document d under configuration c, with the first
\* heading t and the import/export statements e found by the scan.
Page(c, d, t, e) ==
  [src     |-> d.src,
   route   |-> IF d.path.known THEN <<Route(d.path)>> ELSE <<>>,
   title   |-> IF FrontmatterTitle(d) # <<>> THEN FrontmatterTitle(d) ELSE t,
   footer  |-> c.footer.text,
   imports |-> e]

\* The index of the last fence line among marks ms (0: none).
LastFence(ms) ==
  IF \E i \in 1..Len(ms) : ms[i].kind = "fence"
  THEN CHOOSE i \in 1..Len(ms) :
         /\ ms[i].kind = "fence"
         /\ \A j \in (i + 1)..Len(ms) : ms[j].kind # "fence"
  ELSE 0

\* Marks ms without the i-th.
Without(ms, i) == SubSeq(ms, 1, i - 1) \o SubSeq(ms, i + 1, Len(ms))

\* The marked lines of document i as the author's files hold them now.
MarksOf(i) ==
  IF i = broken
  THEN Without(Corpus[i].marks, LastFence(Corpus[i].marks))
  ELSE Corpus[i].marks

NoConfig == [missing |-> TRUE]
NoRun == [done |-> FALSE]

\* The start of the first run, from shipped configuration sh, with document sk
\* left out of the corpus (0: none).
BuildStart(sh, sk) ==
  /\ shipped = sh
  /\ site = ShippedConfigs[sh]
  /\ skipped = sk
  /\ broken = 0
  /\ edits = 0
  /\ runs = 1
  /\ phase = "start"
  /\ cfg = NoConfig
  /\ cfgReads = 0
  /\ doc = 0
  /\ pos = 0
  /\ fence = 0
  /\ title = <<>>
  /\ esm = {}
  /\ output = {}
  /\ prev = NoRun
  /\ loadedAt = 0

InitBuild ==
  \E sh \in 1..Len(ShippedConfigs), sk \in 0..Len(Corpus) : BuildStart(sh, sk)

\* The generator reads the configuration object at the start of the build.
LoadConfig ==
  /\ phase = "start"
  /\ WellShaped(site)
  /\ cfg' = site
  /\ cfgReads' = cfgReads + 1
  /\ loadedAt' = edits
  /\ phase' = "render"
  /\ doc' = 1
  /\ UNCHANGED <<shipped, site, skipped, broken, edits, runs,
                 pos, fence, title, esm, output, prev>>
  /\ UNCHANGED exceptBuild

\* The generator rejects a configuration of another shape: the build fails.
FailConfig ==
  /\ phase = "start"
  /\ ~WellShaped(site)
  /\ cfgReads' = cfgReads + 1
  /\ phase' = "failed"
  /\ UNCHANGED <<shipped, loadedAt, site, skipped, broken, edits, runs, cfg,
                 doc, pos, fence, title, esm, output, prev>>
  /\ UNCHANGED exceptBuild

\* A document that is not part of this corpus is passed over.
SkipDoc ==
  /\ phase = "render"
  /\ doc <= Len(Corpus)
  /\ doc = skipped
  /\ doc' = doc + 1
  /\ UNCHANGED <<shipped, loadedAt, site, skipped, broken, edits, runs, phase, cfg,
                 cfgReads, pos, fence, title, esm, output, prev>>
  /\ UNCHANGED exceptBuild

\* The renderer reads the next marked line of the current document.
ScanMark ==
  /\ phase = "render"
  /\ doc <= Len(Corpus)
  /\ doc # skipped
  /\ pos < Len(MarksOf(doc))
  /\ LET m == MarksOf(doc)[pos + 1]
     IN /\ fence' = FenceAfter(fence, m)
        /\ title' = TitleAfter(fence, title, m)
        /\ esm' = EsmAfter(fence, esm, m)
  /\ pos' = pos + 1
  /\ UNCHANGED <<shipped, loadedAt, site, skipped, broken, edits, runs, phase, cfg,
                 cfgReads, doc, output, prev>>
  /\ UNCHANGED exceptBuild

\* EmitPage, but with the page built from the author's file as it is now.
EmitPage_reads_site ==
  /\ phase = "render"
  /\ doc <= Len(Corpus)
  /\ doc # skipped
  /\ pos = Len(MarksOf(doc))
  /\ fence = 0
  /\ output' = output \cup
       {Page(IF WellShaped(site) THEN site ELSE cfg, Corpus[doc], title, esm)}
  /\ doc' = doc + 1
  /\ pos' = 0
  /\ title' = <<>>
  /\ esm' = {}
  /\ UNCHANGED <<shipped, loadedAt, site, skipped, broken, edits, runs, phase, cfg,
                 cfgReads, fence, prev>>
  /\ UNCHANGED exceptBuild

\* The end of the document, outside every fence: the page is written.
EmitPage ==
  /\ phase = "render"
  /\ doc <= Len(Corpus)
  /\ doc # skipped
  /\ pos = Len(MarksOf(doc))
  /\ fence = 0
  /\ output' = output \cup {Page(cfg, Corpus[doc], title, esm)}
  /\ doc' = doc + 1
  /\ pos' = 0
  /\ title' = <<>>
  /\ esm' = {}
  /\ UNCHANGED <<shipped, loadedAt, site, skipped, broken, edits, runs, phase, cfg,
                 cfgReads, fence, prev>>
  /\ UNCHANGED exceptBuild

\* FailDoc, but with the document passed over and the build going on.
FailDoc_recovers ==
  /\ phase = "render"
  /\ doc <= Len(Corpus)
  /\ doc # skipped
  /\ pos = Len(MarksOf(doc))
  /\ fence # 0
  /\ doc' = doc + 1
  /\ pos' = 0
  /\ fence' = 0
  /\ title' = <<>>
  /\ esm' = {}
  /\ UNCHANGED <<shipped, loadedAt, site, skipped, broken, edits, runs, phase,
                 cfg, cfgReads, output, prev>>
  /\ UNCHANGED exceptBuild

\* The end of the document inside a fence: the document does not parse and
\* the build fails.
FailDoc ==
  /\ phase = "render"
  /\ doc <= Len(Corpus)
  /\ doc # skipped
  /\ pos = Len(MarksOf(doc))
  /\ fence # 0
  /\ phase' = "failed"
  /\ UNCHANGED <<shipped, loadedAt, site, skipped, broken, edits, runs, cfg, cfgReads,
                 doc, pos, fence, title, esm, output, prev>>
  /\ UNCHANGED exceptBuild

\* Every document is rendered: the build is done.
Finish ==
  /\ phase = "render"
  /\ doc > Len(Corpus)
  /\ phase' = "done"
  /\ UNCHANGED <<shipped, loadedAt, site, skipped, broken, edits, runs, cfg, cfgReads,
                 doc, pos, fence, title, esm, output, prev>>
  /\ UNCHANGED exceptBuild

\* The build of the shipped site: one run over the shipped files.
NextBuild ==
  \/ LoadConfig
  \/ SkipDoc
  \/ ScanMark
  \/ EmitPage
  \/ Finish

(***************************************************************************)
(* The author's side: edits of the files, and further build runs.          *)
(***************************************************************************)

\* A bound on the author's edits, and one on the build runs.
MaxEdits == 2
MaxRuns == 2

\* The footer texts the author may write.
FooterTexts == {"X", "Y"}

\* The documents the author may break: a document that is one code block, and
\* one with many.
Breakable ==
  {i \in 1..Len(Corpus) :
     Corpus[i] \in {Doc_collecting_paginated_data_easily,
                    Doc_optimizing_context_api_with_memoization_and_context_splitting}}

\* The author's files change between two documents of a run, or between runs:
\* the renderer reads a document's file in one piece.
BetweenDocuments == pos = 0

\* The author changes footer.text to s.
EditFooter(s) ==
  /\ edits < MaxEdits
  /\ BetweenDocuments
  /\ WellShaped(site)
  /\ site.footer.text # s
  /\ site' = [site EXCEPT !.footer.text = s]
  /\ edits' = edits + 1
  /\ UNCHANGED <<shipped, loadedAt, skipped, broken, runs, phase, cfg, cfgReads,
                 doc, pos, fence, title, esm, output, prev>>
  /\ UNCHANGED exceptBuild

\* The author misspells the key of the footer text: the shape is malformed.
BreakConfig ==
  /\ edits < MaxEdits
  /\ BetweenDocuments
  /\ WellShaped(site)
  /\ site' = [site EXCEPT !.footer = [txt |-> site.footer.text]]
  /\ edits' = edits + 1
  /\ UNCHANGED <<shipped, loadedAt, skipped, broken, runs, phase, cfg, cfgReads,
                 doc, pos, fence, title, esm, output, prev>>
  /\ UNCHANGED exceptBuild

\* The author deletes the last fence line of document i.
BreakDoc(i) ==
  /\ edits < MaxEdits
  /\ BetweenDocuments
  /\ broken = 0
  /\ broken' = i
  /\ edits' = edits + 1
  /\ UNCHANGED <<shipped, loadedAt, site, skipped, runs, phase, cfg, cfgReads,
                 doc, pos, fence, title, esm, output, prev>>
  /\ UNCHANGED exceptBuild

\* Rebuild, but with the pages of the run before kept in the output.
Rebuild_keeps_pages ==
  /\ phase \in {"done", "failed"}
  /\ runs < MaxRuns
  /\ runs' = runs + 1
  /\ prev' = IF phase = "done"
             THEN [done |-> TRUE, cfg |-> cfg, output |-> output]
             ELSE prev
  /\ phase' = "start"
  /\ cfg' = NoConfig
  /\ cfgReads' = 0
  /\ doc' = 0
  /\ pos' = 0
  /\ fence' = 0
  /\ title' = <<>>
  /\ esm' = {}
  /\ UNCHANGED <<shipped, loadedAt, site, skipped, broken, edits, output>>
  /\ UNCHANGED exceptBuild

\* The author starts the build again.
Rebuild ==
  /\ phase \in {"done", "failed"}
  /\ runs < MaxRuns
  /\ runs' = runs + 1
  /\ prev' = IF phase = "done"
             THEN [done |-> TRUE, cfg |-> cfg, output |-> output]
             ELSE prev
  /\ phase' = "start"
  /\ cfg' = NoConfig
  /\ cfgReads' = 0
  /\ doc' = 0
  /\ pos' = 0
  /\ fence' = 0
  /\ title' = <<>>
  /\ esm' = {}
  /\ output' = {}
  /\ UNCHANGED <<shipped, loadedAt, site, skipped, broken, edits>>
  /\ UNCHANGED exceptBuild
  /\ UNCHANGED exceptBuild

NextAuthor ==
  \/ LoadConfig
  \/ FailConfig
  \/ ScanMark
  \/ EmitPage
  \/ FailDoc
  \/ Finish
  \/ \E s \in FooterTexts : EditFooter(s)
  \/ BreakConfig
  \/ \E i \in Breakable : BreakDoc(i)
  \/ Rebuild

(***************************************************************************)
(* The debounced Search component (Case Study 1, Step 3): a term, a        *)
(* memoized fetchResults that captures it, and an effect that starts a     *)
(* timer for fetchResults and whose cleanup clears that timer.             *)
(***************************************************************************)

\* The delay of the effect's setTimeout, in milliseconds.
Delay == 500

\* The terms the user types, the time one step of the clock takes, the time
\* the clock stops at, and the number of timers that may be started.
Terms == {"a", "b"}
Step == 250
MaxTime == 1500
MaxTimers == 5

InitSearch ==
  /\ mounted = FALSE
  /\ term = ""
  /\ fetchTerm = ""
  /\ timers = {}
  /\ nextTimer = 1
  /\ effectTimer = 0
  /\ now = 0
  /\ changedAt = 0
  /\ calls = <<>>
  /\ pending = {}
  /\ results = <<>>

\* The first render, with the empty term, and the first run of the effect.
Mount ==
  /\ ~mounted
  /\ nextTimer = 1
  /\ mounted' = TRUE
  /\ fetchTerm' = term
  /\ timers' = timers \cup {[id |-> nextTimer, due |-> now + Delay, term |-> term]}
  /\ effectTimer' = nextTimer
  /\ nextTimer' = nextTimer + 1
  /\ changedAt' = now
  /\ UNCHANGED <<term, now, calls, pending, results>>
  /\ UNCHANGED exceptSearch

\* SetTerm, but with an effect that returns no cleanup.
SetTerm_no_cleanup(t) ==
  /\ mounted
  /\ t # term
  /\ nextTimer <= MaxTimers
  /\ term' = t
  /\ fetchTerm' = t
  /\ timers' = timers \cup {[id |-> nextTimer, due |-> now + Delay, term |-> t]}
  /\ effectTimer' = nextTimer
  /\ nextTimer' = nextTimer + 1
  /\ changedAt' = now
  /\ UNCHANGED <<mounted, now, calls, pending, results>>
  /\ UNCHANGED exceptSearch

\* setTerm(t) with another term and the render it causes: fetchResults is
\* memoized anew for the new term, so the effect runs again: first the
\* cleanup of its last run (clearTimeout of that run's timer), then the
\* effect itself (setTimeout of the new fetchResults).  setTerm with the
\* same term causes no render.
SetTerm(t) ==
  /\ mounted
  /\ t # term
  /\ nextTimer <= MaxTimers
  /\ term' = t
  /\ fetchTerm' = t
  /\ timers' = {x \in timers : x.id # effectTimer}
                 \cup {[id |-> nextTimer, due |-> now + Delay, term |-> t]}
  /\ effectTimer' = nextTimer
  /\ nextTimer' = nextTimer + 1
  /\ changedAt' = now
  /\ UNCHANGED <<mounted, now, calls, pending, results>>
  /\ UNCHANGED exceptSearch

\* Time passes.  A timer is run at its time or later.
Tick ==
  /\ now + Step <= MaxTime
  /\ now' = now + Step
  /\ UNCHANGED <<mounted, term, fetchTerm, timers, nextTimer, effectTimer,
                 changedAt, calls, pending, results>>
  /\ UNCHANGED exceptSearch

\* A timer that is due runs its fetchResults: the request for the term that
\* fetchResults captured is sent.
Fire(x) ==
  /\ x \in timers
  /\ now >= x.due
  /\ timers' = timers \ {x}
  /\ calls' = Append(calls, [term |-> x.term, at |-> now,
                             current |-> term, since |-> changedAt])
  /\ pending' = pending \cup {x.term}
  /\ UNCHANGED <<mounted, term, fetchTerm, nextTimer, effectTimer, now,
                 changedAt, results>>
  /\ UNCHANGED exceptSearch

\* A response arrives: setResults(data).  The render it causes leaves
\* fetchResults as it is, so the effect does not run.
Respond(r) ==
  /\ r \in pending
  /\ pending' = pending \ {r}
  /\ results' = <<r>>
  /\ UNCHANGED <<mounted, term, fetchTerm, timers, nextTimer, effectTimer, now,
                 changedAt, calls>>
  /\ UNCHANGED exceptSearch

\* The component is removed: the cleanup of the last effect run clears its timer.
Unmount ==
  /\ mounted
  /\ mounted' = FALSE
  /\ timers' = {x \in timers : x.id # effectTimer}
  /\ UNCHANGED <<term, fetchTerm, nextTimer, effectTimer, now, changedAt,
                 calls, pending, results>>
  /\ UNCHANGED exceptSearch

NextSearch ==
  \/ Mount
  \/ \E t \in Terms : SetTerm(t)
  \/ Tick
  \/ \E x \in timers : Fire(x)
  \/ \E r \in pending : Respond(r)
  \/ Unmount

\* C10: at most one timer is pending; every API call was made for the term
\* the component held when the call was made, and at least 500 ms after the
\* last change of the term (the mount, for the first term).
C10_Debounced ==
  /\ Cardinality(timers) <= 1
  /\ \A i \in 1..Len(calls) :
       /\ calls[i].term = calls[i].current
       /\ calls[i].at - calls[i].since >= Delay

\* A call was made for a typed term, after at least one timer was cleared
\* before it ran.
C10_Witness ==
  /\ \E i \in 1..Len(calls) : calls[i].term # ""
  /\ nextTimer - 1 > Len(calls) + Cardinality(timers)
  /\ mounted

(***************************************************************************)
(* The useApiRequest hook (Case Study 6, final version).  An object is a   *)
(* record [json, from]: its JSON text and where it comes from (0: the      *)
(* caller, n: the response to call n), so that two objects may have the    *)
(* same text and still be two objects for React.                           *)
(***************************************************************************)

\* The request types a caller passes ("PATCH": one that performRequest rejects).
RequestTypes == {"GET", "POST", "PUT", "DELETE", "PATCH"}

\* The objects a caller sets as data and as parameters, the JSON texts a
\* response carries, and the errors of a request that fails on the network.
CallerData == {[json |-> "a", from |-> 0], [json |-> "b", from |-> 0]}
CallerParameters == {[json |-> "{}", from |-> 0], [json |-> "p", from |-> 0]}
ResponseTexts == {"a", "r"}
NetworkErrors == {"Network Error"}
InitialData == [json |-> "a", from |-> 0]
InitialParameters == [json |-> "{}", from |-> 0]

\* The delay the hook is called with, the time the clock stops at (both in
\* steps of the clock), and the number of calls of performRequest.
ApiDelay == 2
MaxApiTime == 6
MaxRequests == 3

\* JSON.stringify: the text of an object, whichever object it is.
Stringify(v) == v.json

\* performRequest: the request axios sends, or the error thrown.
PerformRequest(type, p, d) ==
  CASE type = "GET"    -> [sent |-> TRUE, method |-> "GET", params |-> <<p.json>>, body |-> <<>>]
    [] type = "POST"   -> [sent |-> TRUE, method |-> "POST", params |-> <<>>, body |-> <<d.json>>]
    [] type = "PUT"    -> [sent |-> TRUE, method |-> "PUT", params |-> <<>>, body |-> <<d.json>>]
    [] type = "DELETE" -> [sent |-> TRUE, method |-> "DELETE", params |-> <<>>, body |-> <<>>]
    [] OTHER           -> [sent |-> FALSE, error |-> "Invalid request type"]

\* The timer the effect starts for the executeApiRequest of a render with
\* data d and parameters p.
ApiTimerFor(d, p) == <<[due |-> apiNow + ApiDelay, data |-> d, parameters |-> p]>>

InitApi ==
  /\ apiMounted = FALSE
  /\ requestType = "GET"
  /\ data = InitialData
  /\ parameters = InitialParameters
  /\ isLoading = FALSE
  /\ error = <<>>
  /\ previousData = InitialData
  /\ previousParameters = InitialParameters
  /\ apiTimer = <<>>
  /\ apiNow = 0
  /\ apiSince = 0
  /\ inflight = {}
  /\ nextRequest = 1
  /\ sent = <<>>
  /\ settled = {}
  /\ changed = FALSE
  /\ unhandled = {}

\* The first render of a component that calls the hook with request type rt,
\* and the first run of the effect.
ApiMount(rt) ==
  /\ ~apiMounted
  /\ apiMounted' = TRUE
  /\ requestType' = rt
  /\ apiTimer' = ApiTimerFor(data, parameters)
  /\ apiSince' = apiNow
  /\ UNCHANGED <<data, parameters, isLoading, error, previousData,
                 previousParameters, apiNow, inflight, nextRequest, sent,
                 settled, changed, unhandled>>
  /\ UNCHANGED exceptApi

\* The caller's setData(v) with another object: the render memoizes
\* executeApiRequest anew, the cleanup of the effect clears the pending timer
\* and the effect starts one for the new executeApiRequest.
SetData(v) ==
  /\ apiMounted
  /\ v # data
  /\ data' = v
  /\ apiTimer' = ApiTimerFor(v, parameters)
  /\ apiSince' = apiNow
  /\ changed' = TRUE
  /\ UNCHANGED <<apiMounted, requestType, parameters, isLoading, error,
                 previousData, previousParameters, apiNow, inflight,
                 nextRequest, sent, settled, unhandled>>
  /\ UNCHANGED exceptApi

\* The caller's setParameters(p) with another object.
SetParameters(p) ==
  /\ apiMounted
  /\ p # parameters
  /\ parameters' = p
  /\ apiTimer' = ApiTimerFor(data, p)
  /\ apiSince' = apiNow
  /\ changed' = TRUE
  /\ UNCHANGED <<apiMounted, requestType, data, isLoading, error,
                 previousData, previousParameters, apiNow, inflight,
                 nextRequest, sent, settled, unhandled>>
  /\ UNCHANGED exceptApi

\* Time passes.
ApiTick ==
  /\ apiNow < MaxApiTime
  /\ apiNow' = apiNow + 1
  /\ UNCHANGED <<apiMounted, requestType, data, parameters, isLoading, error,
                 previousData, previousParameters, apiTimer, apiSince,
                 inflight, nextRequest, sent, settled, changed, unhandled>>
  /\ UNCHANGED exceptApi

\* The timer runs executeApiRequest, up to its await: if the text of the data
\* or of the parameters it captured differs from the text of the refs, it
\* sets isLoading and error and calls performRequest.
ExecuteApiRequest ==
  /\ apiTimer # <<>>
  /\ apiNow >= apiTimer[1].due
  /\ apiTimer' = <<>>
  /\ LET c == apiTimer[1]
     IN IF \/ Stringify(previousData) # Stringify(c.data)
           \/ Stringify(previousParameters) # Stringify(c.parameters)
        THEN /\ nextRequest <= MaxRequests
             /\ isLoading' = TRUE
             /\ error' = <<>>
             /\ LET call == PerformRequest(requestType, c.parameters, c.data)
                IN /\ inflight' = inflight \cup
                        {[id |-> nextRequest, data |-> c.data,
                          parameters |-> c.parameters, call |-> call]}
                   /\ sent' = IF call.sent
                              THEN Append(sent, [id |-> nextRequest, call |-> call,
                                                 changed |-> changed,
                                                 waited |-> apiNow - apiSince])
                              ELSE sent
             /\ nextRequest' = nextRequest + 1
             /\ changed' = FALSE
        ELSE UNCHANGED <<isLoading, error, inflight, sent, nextRequest, changed>>
  /\ UNCHANGED <<apiMounted, requestType, data, parameters, previousData,
                 previousParameters, apiNow, apiSince, settled, unhandled>>
  /\ UNCHANGED exceptApi

\* The request of call q is answered with an object of text r: setData of
\* that object, the refs take the data and parameters the call was made with,
\* and isLoading is set to false.  data is a new object, so the render
\* memoizes executeApiRequest anew and the effect runs again.
Resolve(q, r) ==
  /\ q \in inflight
  /\ q.call.sent
  /\ inflight' = inflight \ {q}
  /\ data' = [json |-> r, from |-> q.id]
  /\ previousData' = q.data
  /\ previousParameters' = q.parameters
  /\ isLoading' = FALSE
  /\ apiTimer' = ApiTimerFor([json |-> r, from |-> q.id], parameters)
  /\ apiSince' = apiNow
  /\ settled' = settled \cup {[id |-> q.id, ok |-> TRUE, error |-> <<>>]}
  /\ UNCHANGED <<apiMounted, requestType, parameters, error, apiNow,
                 nextRequest, sent, changed, unhandled>>
  /\ UNCHANGED exceptApi

\* Reject, but with no catch around the call: the error leaves the hook.
Reject_uncaught(q, e) ==
  /\ q \in inflight
  /\ IF q.call.sent THEN e \in NetworkErrors ELSE e = q.call.error
  /\ inflight' = inflight \ {q}
  /\ isLoading' = FALSE
  /\ unhandled' = unhandled \cup {e}
  /\ settled' = settled \cup {[id |-> q.id, ok |-> FALSE, error |-> <<e>>]}
  /\ UNCHANGED <<apiMounted, requestType, data, parameters, error, previousData,
                 previousParameters, apiTimer, apiNow, apiSince, nextRequest,
                 sent, changed>>
  /\ UNCHANGED exceptApi

\* Call q throws e (its request fails, or performRequest rejected the request
\* type): the catch stores e in error, and isLoading is set to false.  No
\* dependency of executeApiRequest changes, so the effect does not run.
Reject(q, e) ==
  /\ q \in inflight
  /\ IF q.call.sent THEN e \in NetworkErrors ELSE e = q.call.error
  /\ inflight' = inflight \ {q}
  /\ error' = <<e>>
  /\ isLoading' = FALSE
  /\ settled' = settled \cup {[id |-> q.id, ok |-> FALSE, error |-> <<e>>]}
  /\ UNCHANGED <<apiMounted, requestType, data, parameters, previousData,
                 previousParameters, apiTimer, apiNow, apiSince, nextRequest,
                 sent, changed, unhandled>>
  /\ UNCHANGED exceptApi

NextApi ==
  \/ \E rt \in RequestTypes : ApiMount(rt)
  \/ \E v \in CallerData : SetData(v)
  \/ \E p \in CallerParameters : SetParameters(p)
  \/ ApiTick
  \/ ExecuteApiRequest
  \/ \E q \in inflight, r \in ResponseTexts : Resolve(q, r)
  \/ \E q \in inflight, e \in NetworkErrors \cup {"Invalid request type"} : Reject(q, e)

\* C11: every request the hook sends follows a change the caller made to data
\* or parameters since the request before it (since the mount, for the
\* first), and is sent when the delay has passed since the last change.
C11_RequestOnlyOnCallerChange ==
  \A i \in 1..Len(sent) : sent[i].changed /\ sent[i].waited >= ApiDelay

\* C12: isLoading is true exactly when a call the hook made is in flight.
C12_LoadingTracksRequests ==
  isLoading <=> inflight # {}

\* C13: a call that throws is never propagated out of the hook, and the step
\* in which it throws stores the error in error, sets isLoading to false and
\* leaves data and both refs as they were.
C13_ErrorCaught ==
  /\ [](unhandled = {})
  /\ [][\A s \in settled' \ settled :
          ~s.ok => /\ error' = s.error
                   /\ isLoading' = FALSE
                   /\ data' = data
                   /\ previousData' = previousData
                   /\ previousParameters' = previousParameters]_vars

\* performRequest has rejected the request type of a call made after the
\* caller set new data, and the error is stored.
C13_Witness ==
  /\ \E s \in settled : ~s.ok /\ s.error = <<"Invalid request type">>
  /\ error = <<"Invalid request type">>
  /\ ~isLoading
  /\ data # InitialData
  /\ previousData = InitialData

(***************************************************************************)
(* The Pagination component (Case Study 2, Step 3).                        *)
(***************************************************************************)

\* The pages the user selects and the number of requests the model follows.
Pages == {1, 2, 3}
MaxPageRequests == 4

InitPagination ==
  /\ pgMounted = FALSE
  /\ page = 1
  /\ pageData = <<>>
  /\ prevPageRef = 1
  /\ requested = <<>>
  /\ pgInflight = {}

\* fetchData as memoized by a render with page p: a request for p if p is
\* not the page of the ref.
FetchData(p) ==
  IF prevPageRef # p
  THEN /\ requested' = Append(requested, p)
       /\ pgInflight' = pgInflight \cup {[id |-> Len(requested) + 1, page |-> p]}
  ELSE UNCHANGED <<requested, pgInflight>>

\* The first render and the first run of the effect: fetchData(), then the
\* ref takes the page.
PaginationMount ==
  /\ ~pgMounted
  /\ pgMounted' = TRUE
  /\ FetchData(page)
  /\ prevPageRef' = page
  /\ UNCHANGED <<page, pageData>>
  /\ UNCHANGED exceptPagination

\* SetPage, but with the effect of Step 2 (fetchData has no test of the ref)
\* and a render for every call.
SetPage_always_fetches(p) ==
  /\ pgMounted
  /\ Len(requested) < MaxPageRequests
  /\ page' = p
  /\ requested' = Append(requested, p)
  /\ pgInflight' = pgInflight \cup {[id |-> Len(requested) + 1, page |-> p]}
  /\ prevPageRef' = p
  /\ UNCHANGED <<pgMounted, pageData>>
  /\ UNCHANGED exceptPagination

\* setPage(p).  With the page the component has, React renders nothing and
\* no effect runs.  With another page the render memoizes fetchData anew and
\* the effect runs: fetchData(), then the ref takes the page.
SetPage(p) ==
  /\ pgMounted
  /\ Len(requested) < MaxPageRequests
  /\ IF p = page
     THEN UNCHANGED <<page, requested, pgInflight, prevPageRef>>
     ELSE /\ page' = p
          /\ FetchData(p)
          /\ prevPageRef' = p
  /\ UNCHANGED <<pgMounted, pageData>>
  /\ UNCHANGED exceptPagination

\* A request is answered: setData(data).  The render leaves fetchData and
\* page as they are, so the effect does not run.
PageRespond(q) ==
  /\ q \in pgInflight
  /\ pgInflight' = pgInflight \ {q}
  /\ pageData' = <<q.page>>
  /\ UNCHANGED <<pgMounted, page, prevPageRef, requested>>
  /\ UNCHANGED exceptPagination

NextPagination ==
  \/ PaginationMount
  \/ \E p \in Pages : SetPage(p)
  \/ \E q \in pgInflight : PageRespond(q)

\* C14: a step that takes the component to a page other than the one the
\* last effect run recorded sends one request, for that page; no other step
\* sends a request.
C14_RequestOnPageChange ==
  [][ /\ (pgMounted /\ page' # prevPageRef) => requested' = Append(requested, page')
      /\ (pgMounted /\ page' = prevPageRef) => requested' = requested
      /\ ~pgMounted => requested' = requested
      /\ pgMounted' => prevPageRef' = page' ]_vars

\* Page 2 was selected, then page 3, then page 2 again: three requests.
C14_Witness ==
  /\ requested = <<2, 3, 2>>
  /\ page = 2
  /\ prevPageRef = 2

(***************************************************************************)
(* ImmerFluent (lib/createState): immerReducer, mergeObjects, the Provider *)
(* and the custom context hook.  A JavaScript value is a record with a tag *)
(* t: a number [t, v], null [t], or an object [t, f] with f the function   *)
(* from its own keys to their values.                                      *)
(***************************************************************************)

Num(n) == [t |-> "num", v |-> n]
Null == [t |-> "null"]
Obj(f) == [t |-> "obj", f |-> f]

\* The keys and the values that are no objects, and the objects with values
\* of those, one and two levels deep.
Keys == {"a", "b"}
Leaves == {Num(1), Num(2), Null}
ObjectsOf(values) == {Obj(f) : f \in UNION {[S -> values] : S \in SUBSET Keys}}
Objects1 == ObjectsOf(Leaves)
Objects2 == ObjectsOf(Leaves \cup Objects1)

\* x instanceof Object
InstanceofObject(x) == x.t = "obj"

\* o.hasOwnProperty(k), for an object o
HasOwnProperty(o, k) == k \in DOMAIN o.f

\* Object.assign(target, source): the own keys of source are set on target,
\* one level deep.
ObjectAssign(target, source) ==
  Obj([k \in DOMAIN target.f \cup DOMAIN source.f |->
         IF k \in DOMAIN source.f THEN source.f[k] ELSE target.f[k]])

\* mergeObjects(target, source): [ok |-> TRUE, value |-> target after the
\* call] or, when the call throws, [ok |-> FALSE].  source is an object.  A
\* target that is null or a number has no property to read or to set: the
\* first key of source throws a TypeError (module code is strict).
RECURSIVE mergeObjects(_, _)
mergeObjects(target, source) ==
  IF DOMAIN source.f = {}
  THEN [ok |-> TRUE, value |-> target]
  ELSE IF ~InstanceofObject(target)
  THEN [ok |-> FALSE, error |-> "TypeError"]
  ELSE LET sub == [k \in DOMAIN source.f |->
                     IF InstanceofObject(source.f[k]) /\ HasOwnProperty(target, k)
                     THEN mergeObjects(target.f[k], source.f[k])
                     ELSE [ok |-> TRUE, value |-> source.f[k]]]
       IN IF \E k \in DOMAIN source.f : ~sub[k].ok
          THEN [ok |-> FALSE, error |-> "TypeError"]
          ELSE [ok |-> TRUE,
                value |-> Obj([k \in DOMAIN target.f \cup DOMAIN source.f |->
                                 IF k \in DOMAIN source.f THEN sub[k].value
                                 ELSE target.f[k]])]

\* immerReducer for SET_PARTIAL_STATE: the next state, or the throw.
SetPartialState(draft, value, overwrite) ==
  IF overwrite
  THEN [ok |-> TRUE, value |-> ObjectAssign(draft, value)]
  ELSE mergeObjects(draft, value)

\* immerReducer for UPDATE_STATE with an updater that sets draft[k] = v: on
\* the draft, or on an empty object that is then assigned to the draft.
UpdateState(draft, k, v, overwrite) ==
  IF overwrite
  THEN ObjectAssign(draft, Obj([j \in {k} |-> v]))
  ELSE Obj([j \in DOMAIN draft.f \cup {k} |-> IF j = k THEN v ELSE draft.f[j]])

\* The defaultState the creator is called with.
DefaultState == Obj([a |-> Obj([a |-> Num(1), b |-> Num(2)]), b |-> Num(1)])

\* The default value of the Context, and the value the Provider gives.
ContextDefault == [state |-> DefaultState, setState |-> "noop", dispatch |-> "noop"]
ProviderValue == [state |-> state, setState |-> "setState", dispatch |-> "dispatch"]

InitImmer ==
  /\ provided = FALSE
  /\ state = DefaultState
  /\ threw = <<>>
  /\ lastHook = [called |-> FALSE]

\* The Provider is rendered: useImmerReducer(immerReducer, defaultState).
Provide ==
  /\ ~provided
  /\ provided' = TRUE
  /\ state' = DefaultState
  /\ UNCHANGED <<threw, lastHook>>
  /\ UNCHANGED exceptImmer

\* What the last call of the hook is after the state has become s: a
\* component inside the Provider is rendered again with the new value.
HookAfter(s) ==
  IF lastHook.called /\ lastHook.inside
  THEN [lastHook EXCEPT !.returned = [ProviderValue EXCEPT !.state = s]]
  ELSE lastHook

\* setState(value, { overwrite }) with an object: SET_PARTIAL_STATE is
\* dispatched.  A reducer that throws leaves the state as it was.
SetState(value, overwrite) ==
  /\ provided
  /\ LET r == SetPartialState(state, value, overwrite)
     IN /\ state' = IF r.ok THEN r.value ELSE state
        /\ threw' = IF r.ok THEN <<>> ELSE <<r.error>>
        /\ lastHook' = HookAfter(IF r.ok THEN r.value ELSE state)
  /\ UNCHANGED provided
  /\ UNCHANGED exceptImmer

\* setState(updater, { overwrite }) with a function that sets draft[k] = v:
\* UPDATE_STATE is dispatched.
SetStateWith(k, v, overwrite) ==
  /\ provided
  /\ state' = UpdateState(state, k, v, overwrite)
  /\ threw' = <<>>
  /\ lastHook' = HookAfter(UpdateState(state, k, v, overwrite))
  /\ UNCHANGED provided
  /\ UNCHANGED exceptImmer

\* A component calls the custom context hook, inside the Provider or not:
\* useContext gives the Provider's value or the default value of the
\* Context, and the hook throws if that is falsy.  Both are objects.
UseContextHook(inside) ==
  /\ inside => provided
  /\ LET context == IF inside THEN <<ProviderValue>> ELSE <<ContextDefault>>
     IN lastHook' =
          IF context = <<>>
          THEN [called |-> TRUE, inside |-> inside, threw |-> TRUE,
                error |-> "Custom context hook must be used within its related Provider."]
          ELSE [called |-> TRUE, inside |-> inside, threw |-> FALSE,
                returned |-> context[1]]
  /\ UNCHANGED <<provided, state, threw>>
  /\ UNCHANGED exceptImmer

NextImmer ==
  \/ Provide
  \/ \E value \in Objects2, overwrite \in BOOLEAN : SetState(value, overwrite)
  \/ \E k \in Keys, v \in Leaves, overwrite \in BOOLEAN : SetStateWith(k, v, overwrite)
  \/ \E inside \in BOOLEAN : UseContextHook(inside)

\* The paths of x that end in a value that is no object.
RECURSIVE LeafPaths(_)
LeafPaths(x) ==
  IF ~InstanceofObject(x)
  THEN {<<>>}
  ELSE UNION {{<<k>> \o p : p \in LeafPaths(x.f[k])} : k \in DOMAIN x.f}

\* <<the value of x at path p>>, or <<>> if x has no such path.
RECURSIVE Get(_, _)
Get(x, p) ==
  IF p = <<>>
  THEN <<x>>
  ELSE IF InstanceofObject(x) /\ Head(p) \in DOMAIN x.f
  THEN Get(x.f[Head(p)], Tail(p))
  ELSE <<>>

\* p is the start of q.
IsPrefix(p, q) == Len(p) <= Len(q) /\ SubSeq(q, 1, Len(p)) = p

\* C15: a setState(value, { overwrite: true }) with an object leaves the
\* state equal to that object: the keys of value only, with its values.
C15_OverwriteReplaces ==
  [][\A value \in Objects2 : SetState(value, TRUE) => state' = value]_vars

\* C16: a setState(partial) without overwrite leaves the state with the
\* value of partial at every leaf path of partial, and with the value of the
\* state before the call at every leaf path of it that partial does not touch.
C16_MergeRecursive ==
  [][\A partial \in Objects2 :
       SetState(partial, FALSE) =>
         /\ \A p \in LeafPaths(partial) : Get(state', p) = Get(partial, p)
         /\ \A p \in LeafPaths(state) :
              (\A q \in LeafPaths(partial) : ~IsPrefix(p, q) /\ ~IsPrefix(q, p))
                => Get(state', p) = Get(state, p)]_vars

\* C17: the custom context hook throws its error when it is called outside
\* the Provider, and returns the Provider's state, setState and dispatch
\* when it is called inside.
C17_HookReportsMissingProvider ==
  lastHook.called =>
    IF lastHook.inside
    THEN ~lastHook.threw /\ lastHook.returned = ProviderValue
    ELSE /\ lastHook.threw
         /\ lastHook.error = "Custom context hook must be used within its related Provider."

(***************************************************************************)
(* The useUser hook (Pass Four: useUser.ts).  Values are tagged as above,  *)
(* with strings [t, v], Error objects [t, message] and undefined [t].      *)
(***************************************************************************)

Str(s) == [t |-> "str", v |-> s]
Err(m) == [t |-> "error", message |-> m]
Undefined == [t |-> "undefined"]

\* The components that call the hook.
MaxHooks == 3
Hooks == 1..MaxHooks

\* The reasons a fetch is rejected with (the string is the one of the test
\* "handles fetch errors"), the users a response holds, and the error of a
\* response whose body is no JSON.
RejectReasons == {Str("API error"), Err("Network request failed"), Undefined}
Users == {Obj([id |-> Num(1), name |-> Str("John Doe")])}
JsonErrors == {Err("Unexpected token < in JSON")}

\* err.message: a string has no such property, and reading a property of
\* undefined or null throws.
MessageOf(err) ==
  CASE err.t = "error" -> [ok |-> TRUE, value |-> Str(err.message)]
    [] err.t \in {"undefined", "null"} -> [ok |-> FALSE, error |-> "TypeError"]
    [] OTHER -> [ok |-> TRUE, value |-> Undefined]

InitUser ==
  /\ stage = [i \in Hooks |-> "unmounted"]
  /\ user = [i \in Hooks |-> Null]
  /\ userError = [i \in Hooks |-> Null]
  /\ failure = [i \in Hooks |-> <<>>]
  /\ escaped = {}

\* The catch of fetchUser with err: setError(err.message).
Catch(i, err) ==
  LET m == MessageOf(err)
  IN IF m.ok
     THEN /\ userError' = [userError EXCEPT ![i] = m.value]
          /\ UNCHANGED escaped
     ELSE /\ escaped' = escaped \cup {[hook |-> i, error |-> m.error]}
          /\ UNCHANGED userError

\* The first render of component i and its effect: fetchUser(), up to the
\* await of fetch.
UserMount(i) ==
  /\ stage[i] = "unmounted"
  /\ stage' = [stage EXCEPT ![i] = "fetch"]
  /\ UNCHANGED <<user, userError, failure, escaped>>
  /\ UNCHANGED exceptUser

\* The fetch is answered.  A response that is not ok makes fetchUser throw
\* its own Error, which its catch takes.
FetchResolves(i, ok) ==
  /\ stage[i] = "fetch"
  /\ IF ok
     THEN /\ stage' = [stage EXCEPT ![i] = "json"]
          /\ UNCHANGED <<userError, escaped>>
     ELSE /\ stage' = [stage EXCEPT ![i] = "done"]
          /\ Catch(i, Err("Failed to fetch user"))
  /\ UNCHANGED <<user, failure>>
  /\ UNCHANGED exceptUser

\* The fetch is rejected with reason e, which the catch takes.
FetchRejects(i, e) ==
  /\ stage[i] = "fetch"
  /\ stage' = [stage EXCEPT ![i] = "done"]
  /\ failure' = [failure EXCEPT ![i] = <<e>>]
  /\ Catch(i, e)
  /\ UNCHANGED user
  /\ UNCHANGED exceptUser

\* res.json() gives the user: setUser(user).
JsonResolves(i, u) ==
  /\ stage[i] = "json"
  /\ stage' = [stage EXCEPT ![i] = "done"]
  /\ user' = [user EXCEPT ![i] = u]
  /\ UNCHANGED <<userError, failure, escaped>>
  /\ UNCHANGED exceptUser

\* res.json() is rejected with e, which the catch takes.
JsonRejects(i, e) ==
  /\ stage[i] = "json"
  /\ stage' = [stage EXCEPT ![i] = "done"]
  /\ Catch(i, e)
  /\ UNCHANGED <<user, failure>>
  /\ UNCHANGED exceptUser

NextUser ==
  \/ \E i \in Hooks : UserMount(i)
  \/ \E i \in Hooks, ok \in BOOLEAN : FetchResolves(i, ok)
  \/ \E i \in Hooks, e \in RejectReasons : FetchRejects(i, e)
  \/ \E i \in Hooks, u \in Users : JsonResolves(i, u)
  \/ \E i \in Hooks, e \in JsonErrors : JsonRejects(i, e)

\* C18: when the fetch of a component was rejected with reason e and its
\* fetchUser is over, the error the hook returns is e and its user is null.
C18_FetchErrorReturned ==
  \A i \in Hooks :
    (stage[i] = "done" /\ failure[i] # <<>>) =>
      /\ userError[i] = failure[i][1]
      /\ user[i] = Null

(***************************************************************************)
(* Properties of the configuration, the corpus and the build.              *)
(***************************************************************************)

Alpha ==
  {"a", "b", "c", "d", "e", "f", "g", "h", "i", "j", "k", "l", "m",
   "n", "o", "p", "q", "r", "s", "t", "u", "v", "w", "x", "y", "z",
   "A", "B", "C", "D", "E", "F", "G", "H", "I", "J", "K", "L", "M",
   "N", "O", "P", "Q", "R", "S", "T", "U", "V", "W", "X", "Y", "Z"}
Digit == {"0", "1", "2", "3", "4", "5", "6", "7", "8", "9"}
\* The characters a path, query or fragment may hold (RFC 3986).
UrlChar ==
  Alpha \cup Digit \cup
  {"-", ".", "_", "~", ":", "/", "?", "#", "[", "]", "@", "!", "$", "&",
   "'", "(", ")", "*", "+", ",", ";", "=", "%"}

\* The least index from i on at which u holds a character of cs (Len(u) + 1: none).
FirstOf(u, cs, i) ==
  IF \E j \in i..Len(u) : u[j] \in cs
  THEN CHOOSE j \in i..Len(u) : u[j] \in cs /\ \A k \in i..(j - 1) : u[k] \notin cs
  ELSE Len(u) + 1

\* u is an absolute URL with an authority: scheme "://" host, then a path,
\* query or fragment.
ValidUrl(u) ==
  LET colon == FirstOf(u, {":"}, 1)
      host == colon + 3
      rest == FirstOf(u, {"/", "?", "#"}, host)
  IN /\ colon > 1
     /\ colon + 2 <= Len(u)
     /\ u[1] \in Alpha
     /\ \A j \in 2..(colon - 1) : u[j] \in Alpha \cup Digit \cup {"+", "-", "."}
     /\ u[colon + 1] = "/"
     /\ u[colon + 2] = "/"
     /\ rest > host
     /\ \A j \in host..(rest - 1) : u[j] \in Alpha \cup Digit \cup {"-", "."}
     /\ \A j \in rest..Len(u) : u[j] \in UrlChar

\* The document of the corpus kept in file s.
DocOf(s) == Corpus[CHOOSE i \in 1..Len(Corpus) : Corpus[i].src = s]

\* The state of the scan after the marks of ms from the i-th on, from state s.
\* (The test on n.fence makes TLC compute each state before it goes on.)
RECURSIVE ScanAll(_, _, _)
ScanAll(ms, i, s) ==
  IF i > Len(ms)
  THEN s
  ELSE LET n == [fence |-> FenceAfter(s.fence, ms[i]),
                 title |-> TitleAfter(s.fence, s.title, ms[i]),
                 esm   |-> EsmAfter(s.fence, s.esm, ms[i])]
       IN IF n.fence >= 0 THEN ScanAll(ms, i + 1, n) ELSE n

\* What the scan of each document of the corpus finds, from its first line to
\* its last, when the document is scanned on its own.
ScanAlone ==
  [i \in 1..Len(Corpus) |-> ScanAll(Corpus[i].marks, 1, [fence |-> 0, title |-> <<>>, esm |-> {}])] \o <<>>

\* The index in the corpus of the document kept in file s.
IndexOf(s) == CHOOSE i \in 1..Len(Corpus) : Corpus[i].src = s

\* The page of the i-th document when it is built on its own.
PageAlone(c, i) == Page(c, Corpus[i], ScanAlone[i].title, ScanAlone[i].esm)

\* C1: the configuration object the build reads, whichever of the shipped ones
\* it is, has a non-empty logo and a non-empty footer.text, and its three links
\* (project.link, chat.link, docsRepositoryBase) are syntactically valid URLs.
C1_ConfigWellFormed ==
  cfgReads > 0 /\ phase # "failed" =>
    /\ cfg.logo.children # ""
    /\ cfg.footer.text # ""
    /\ ValidUrl(cfg.project.link)
    /\ ValidUrl(cfg.chat.link)
    /\ ValidUrl(cfg.docsRepositoryBase)

\* The build has read the object of src/theme.config.tsx and built pages with it.
C1_Witness ==
  /\ phase = "done"
  /\ cfg = ThemeConfig
  /\ output # {}

\* C2: no two content files are built at the same route, a file is built at one
\* route only, and when the build is done every content file of known path has
\* its page at the route of its path.
C2_RouteInjective ==
  /\ \A p, q \in output :
       /\ (p.route # <<>> /\ p.route = q.route) => p.src = q.src
       /\ p.src = q.src => p.route = q.route
  /\ phase = "done" =>
       \A i \in 1..Len(Corpus) :
         (i # skipped /\ Corpus[i].path.known) =>
           \E p \in output : p.src = Corpus[i].src /\ p.route = <<Route(Corpus[i].path)>>

\* The build is done, with the pages of both files the claim cites built at
\* routes of their own.
C2_Witness ==
  /\ phase = "done"
  /\ \E p, q \in output :
       /\ p.src = Doc_1_pass_one.src
       /\ q.src = Doc_5_using_passes.src
       /\ p.route = <<Route(Doc_1_pass_one.path)>>
       /\ q.route = <<Route(Doc_5_using_passes.path)>>
       /\ p.route # q.route

\* C3: the scan of a content file ends outside every code fence (each opening
\* fence has met its closing fence), so no document fails to parse, and when
\* the build is done every document of the corpus has its page.
C3_FencesBalanced ==
  /\ (phase = "render" /\ doc <= Len(Corpus) /\ doc # skipped
        /\ pos = Len(MarksOf(doc))) => fence = 0
  /\ phase = "done" =>
       \A i \in 1..Len(Corpus) :
         i # skipped => \E p \in output : p.src = Corpus[i].src

\* The scan has reached the end of collecting-paginated-data-easily.mdx, whose
\* fence opens at line 1 and closes at line 70.
C3_Witness ==
  /\ phase = "render"
  /\ doc <= Len(Corpus)
  /\ doc # skipped
  /\ Corpus[doc] = Doc_collecting_paginated_data_easily
  /\ pos = Len(MarksOf(doc))
  /\ pos > 0
  /\ fence = 0

\* C4: every page built comes from one content file, stands at the route of
\* the file's path, has the text of the file's first heading as title, and the
\* configuration's footer text as footer.
C4_PageOfFile ==
  \A p \in output :
    LET d == DocOf(p.src)
        r == ScanAlone[IndexOf(p.src)]
    IN /\ d.path.known => p.route = <<Route(d.path)>>
       /\ \A q \in output : q.src = p.src => q = p
       /\ r.title # <<>>
       /\ p.title = r.title
       /\ p.footer = cfg.footer.text

\* C6: every page built has a title, taken from the first heading or from the
\* frontmatter of its document.
C6_EveryDocumentTitled ==
  \A p \in output : p.title # <<>>

\* C9: the page built from a document is the page of that document built on
\* its own, whatever documents were built before it and whichever document is
\* left out of the corpus, and it imports no other file of the site.
C9_DocumentsIndependent ==
  \A p \in output :
    /\ p = PageAlone(cfg, IndexOf(p.src))
    /\ \A m \in p.imports : ~(m.stmt = "import" /\ m.relative)

\* 2-pass-two.mdx is built in a corpus from which the page before it is left out.
C9_Witness ==
  /\ skipped # 0
  /\ Corpus[skipped] = Doc_1_pass_one
  /\ \E p \in output : p.src = Doc_2_pass_two.src

\* C5: when a build is done, every page carries the footer text the run read;
\* if no edit was made since the run read the configuration, that is the text
\* the author's file holds; and a run with the same configuration as the run
\* done before it has the same output.
C5_FooterPropagates ==
  phase = "done" =>
    /\ output # {}
    /\ \A p \in output : p.footer = cfg.footer.text
    /\ loadedAt = edits => \A p \in output : p.footer = site.footer.text
    /\ (prev.done /\ prev.cfg = cfg) => output = prev.output

\* The footer was changed to "X" after a first build, and the second build is done.
C5_Witness ==
  /\ phase = "done"
  /\ runs = 2
  /\ prev.done
  /\ prev.cfg.footer.text # "X"
  /\ site.footer.text = "X"
  /\ loadedAt = edits
  /\ \A p \in output : p.footer = "X"

\* C7: a run that starts with a configuration of malformed shape, or that
\* reaches the end of a document inside a fence, takes no step but the one
\* into the failed state; a failed run changes nothing any more (the next
\* step of the build is a new run the author starts); and no run that read a
\* malformed configuration is ever rendering or done.
C7_MalformedInputFails ==
  /\ [](phase \in {"render", "done"} => WellShaped(cfg))
  /\ [][ /\ (phase = "start" /\ ~WellShaped(site) /\ phase' # phase)
              => phase' = "failed"
         /\ (phase = "render" /\ doc <= Len(Corpus)
               /\ pos = Len(MarksOf(doc)) /\ fence # 0
               /\ <<phase, doc, pos, output>>' # <<phase, doc, pos, output>>)
              => (phase' = "failed" /\ output' = output)
         /\ (phase = "failed" /\ runs' = runs)
              => <<phase, cfg, doc, pos, fence, title, output>>'
                   = <<phase, cfg, doc, pos, fence, title, output>>
       ]_vars

\* A run has failed at the end of a document whose closing fence is missing.
C7_Witness ==
  /\ phase = "failed"
  /\ broken # 0
  /\ doc = broken
  /\ fence # 0

\* C8: a run reads the configuration once, before it renders any document;
\* the value it read does not change during the run, whatever the author
\* writes to the file meanwhile; and every page of the run carries the footer
\* of that one value.
C8_ConfigReadOnce ==
  /\ [](/\ cfgReads <= 1
        /\ (phase \in {"render", "done"} => cfgReads = 1)
        /\ (output # {} => cfgReads = 1 /\ \A p \in output : p.footer = cfg.footer.text))
  /\ [][(cfgReads = 1 /\ runs' = runs) => (cfg' = cfg /\ cfgReads' = 1)]_vars

\* The author changed the footer while a run was rendering, and the run is done.
C8_Witness ==
  /\ phase = "done"
  /\ WellShaped(site)
  /\ site.footer.text # cfg.footer.text
  /\ loadedAt < edits
  /\ Cardinality(output) = Len(Corpus)

(***************************************************************************)
(* Specifications.                                                         *)
(***************************************************************************)

\* The sample components before they are mounted.
InitSamples == InitSearch /\ InitApi /\ InitPagination /\ InitImmer /\ InitUser

Init == InitBuild /\ InitSamples

\* One build of the shipped site.
SpecBuild == Init /\ [][NextBuild]_vars

\* The author edits the files and builds again; every document is in the corpus.
InitAuthor == Init /\ skipped = 0

SpecAuthor == InitAuthor /\ [][NextAuthor]_vars

\* The Search component on its own.
InitSearchOnly == BuildStart(1, 0) /\ InitSamples

\* A sample component on its own.
InitIdle == InitSearchOnly

SpecSearch == InitSearchOnly /\ [][NextSearch]_vars

\* The useApiRequest hook on its own.
SpecApi == InitIdle /\ [][NextApi]_vars

\* The Pagination component on its own.
SpecPagination == InitIdle /\ [][NextPagination]_vars

\* The ImmerFluent provider and its hook on their own.
SpecImmer == InitIdle /\ [][NextImmer]_vars

\* Components that call the useUser hook, on their own.
SpecUser == InitIdle /\ [][NextUser]_vars

====
